---- MODULE Spec2Model ----
(***************************************************************************)
(* Verification model of the EVM core of evm-rust-blockchain:              *)
(*   - the journaled substate stack (src/src/executor/stack/state.rs),     *)
(*   - the machine lifecycle (src/sputnikvm/src/vm/eval/lifecycle.rs),     *)
(*   - the system instructions (src/src/vm/eval/run/system.rs).            *)
(***************************************************************************)
EXTENDS Integers, Sequences, FiniteSets, TLC

(***************************************************************************)
(* Bounds of the model.                                                    *)
(***************************************************************************)
MaxDepth == 3
MaxWrites == 3
MaxFrames == 2
MaxInstr == 2
GasLimit == 100000
GasStep == 60000
BigGas == 1000000
MemGas == 6
MaxHashes == 2
MaxNeeds == 2
\* The gas a call asks for when it asks for little.
RequestedGas == 1000
\* The width in bits of a limb of a word, which the code has as 32.
LimbBits == 2

(***************************************************************************)
(* Small value domains.                                                    *)
(***************************************************************************)
Addr == {"a1", "a2"}
Key == {"k1"}
H256Zero == 0
H256Val == {H256Zero, 1}

\* Option<T>: None is the empty sequence, Some(x) the one-element sequence.
None == <<>>
Some(x) == <<x>>

EmptyMap == [x \in {} |-> 0]
Put(m, k, v) == [x \in (DOMAIN m) \cup {k} |-> IF x = k THEN v ELSE m[x]]
Remove(m, ks) == [x \in (DOMAIN m) \ ks |-> m[x]]
\* BTreeMap::append: entries of other replace entries of self with the same key.
MapAppend(self, other) == [x \in (DOMAIN self) \cup (DOMAIN other) |->
                             IF x \in DOMAIN other THEN other[x] ELSE self[x]]

\* The n-th log record emitted: its data is its emission number.
LogEntry(n) == [address |-> "a1", topics |-> <<>>, data |-> n]

VARIABLES
    substate,   \* the stack of MemoryStackSubstate layers, root first, self last
    backend,    \* Backend::basic, read-only during execution
    aborted,    \* TRUE once an operation has panicked
    nwrites,    \* number of write operations performed so far
    nlogs,      \* number of log records emitted so far
    ev,         \* history: the commit/discard just performed, if it was the last step
    snap,       \* history: for each open child, what its parent showed on entry
    wrote,      \* history: per layer, nearest storage write made in its scope
    machines,   \* the stack of Machines, the transaction's first, the running one last
    panicked,   \* TRUE once a lifecycle method has panicked
    ninstr,     \* number of system instructions executed so far
    last,       \* the step just performed on the machines
    tx          \* the transaction: what its driver holds from initialize to finalize

subvars == <<substate, backend, aborted, nwrites, nlogs, ev, snap, wrote>>
machvars == <<machines, panicked, ninstr, last, tx>>
vars == <<substate, backend, aborted, nwrites, nlogs, ev, snap, wrote,
          machines, panicked, ninstr, last, tx>>

Top(s) == s[Len(s)]
Parents(s) == SubSeq(s, 1, Len(s) - 1)
SetTop(s, layer) == [s EXCEPT ![Len(s)] = layer]

(***************************************************************************)
(* MemoryStackSubstate                                                     *)
(***************************************************************************)
\* MemoryStackSubstate::new. The metadata field belongs to the gasometer and
\* is reachable by any caller through metadata_mut; what commit and discard
\* read from it is drawn as an input of those operations.
new ==
    [logs |-> <<>>, accounts |-> EmptyMap, storages |-> EmptyMap, deletes |-> {}]

\* enter: a new empty layer becomes self and the old self becomes its parent.
enter(s) == Append(s, new)

\* A commit in which the parent's entries win over the child's.
commit_parent_wins(s, swallowed) ==
    LET child == Top(s)
        self == s[Len(s) - 1]
    IN IF ~swallowed
       THEN Parents(s)
       ELSE SetTop(Parents(s),
              [self EXCEPT
                 !.accounts = MapAppend(child.accounts, self.accounts),
                 !.storages = MapAppend(child.storages, self.storages),
                 !.deletes = self.deletes \cup child.deletes])

\* A commit that merges the child before it asks the metadata.
commit_merges_first(s, swallowed) ==
    LET child == Top(s)
        self == s[Len(s) - 1]
    IN SetTop(Parents(s),
         [self EXCEPT
            !.accounts = MapAppend(self.accounts, child.accounts),
            !.storages = MapAppend(self.storages, child.storages),
            !.deletes = self.deletes \cup child.deletes])

\* MemoryStackSubstate::commit on a non-root layer; swallowed is the result of
\* metadata.swallow_commit (TRUE for Ok), whose Err returns before the merge.
commit(s, swallowed) ==
    LET child == Top(s)
        self == s[Len(s) - 1]
    IN IF ~swallowed
       THEN Parents(s)
       ELSE SetTop(Parents(s),
              [self EXCEPT
                 !.accounts = MapAppend(self.accounts, child.accounts),
                 !.storages = MapAppend(self.storages, child.storages),
                 !.deletes = self.deletes \cup child.deletes])

\* A discard that keeps the child's self-destructs.
discard_keeps_deletes(s) ==
    SetTop(Parents(s), [s[Len(s) - 1] EXCEPT !.deletes = @ \cup Top(s).deletes])

\* A discard that takes the parent away together with the child.
discard_with_parent(s) ==
    IF Len(s) > 2 THEN SubSeq(s, 1, Len(s) - 2) ELSE Parents(s)

\* MemoryStackSubstate::discard on a non-root layer.
discard(s) == Parents(s)

RECURSIVE known_account(_, _, _)
known_account(s, i, address) ==
    IF address \in DOMAIN s[i].accounts THEN Some(s[i].accounts[address])
    ELSE IF i > 1 THEN known_account(s, i - 1, address)
    ELSE None

known_basic(s, i, address) ==
    LET acc == known_account(s, i, address)
    IN IF acc = None THEN None ELSE Some(acc[1].basic)

known_code(s, i, address) ==
    LET acc == known_account(s, i, address)
    IN IF acc = None THEN None ELSE acc[1].code

known_empty(s, i, address) ==
    LET acc == known_account(s, i, address)
    IN IF acc # None /\ acc[1].code # None
       THEN Some(acc[1].basic.balance = 0 /\ acc[1].basic.nonce = 0
                 /\ Len(acc[1].code[1]) = 0)
       ELSE None

RECURSIVE known_storage(_, _, _, _)
known_storage(s, i, address, key) ==
    IF <<address, key>> \in DOMAIN s[i].storages
    THEN Some(s[i].storages[<<address, key>>])
    ELSE IF address \in DOMAIN s[i].accounts /\ s[i].accounts[address].reset
    THEN Some(H256Zero)
    ELSE IF i > 1 THEN known_storage(s, i - 1, address, key)
    ELSE None

RECURSIVE known_original_storage(_, _, _, _)
known_original_storage(s, i, address, key) ==
    IF address \in DOMAIN s[i].accounts /\ s[i].accounts[address].reset
    THEN Some(H256Zero)
    ELSE IF i > 1 THEN known_original_storage(s, i - 1, address, key)
    ELSE None

RECURSIVE deleted(_, _, _)
deleted(s, i, address) ==
    IF address \in s[i].deletes THEN TRUE
    ELSE IF i > 1 THEN deleted(s, i - 1, address)
    ELSE FALSE

\* MemoryStackSubstate::account_mut: the stack after the account has been
\* brought into the current layer.
account_mut(s, address, b) ==
    IF address \in DOMAIN Top(s).accounts THEN s
    ELSE LET known == known_account(s, Len(s), address)
             account == IF known # None THEN known[1]
                        ELSE [basic |-> b[address], code |-> None, reset |-> FALSE]
         IN SetTop(s, [Top(s) EXCEPT !.accounts = Put(@, address, account)])

inc_nonce(s, address, b) ==
    LET t == account_mut(s, address, b)
    IN SetTop(t, [Top(t) EXCEPT !.accounts[address].basic.nonce = @ + 1])

\* A set_storage that writes through to the root layer.
set_storage_root(s, address, key, value) ==
    [s EXCEPT ![1].storages = Put(@, <<address, key>>, value)]

set_storage(s, address, key, value) ==
    SetTop(s, [Top(s) EXCEPT !.storages = Put(@, <<address, key>>, value)])

reset_storage(s, address, b) ==
    LET removing == {ak \in DOMAIN Top(s).storages : ak[1] = address}
        r == SetTop(s, [Top(s) EXCEPT !.storages = Remove(@, removing)])
        t == account_mut(r, address, b)
    IN SetTop(t, [Top(t) EXCEPT !.accounts[address].reset = TRUE])

log(s, entry) ==
    SetTop(s, [Top(s) EXCEPT !.logs = Append(@, entry)])

set_deleted(s, address) ==
    SetTop(s, [Top(s) EXCEPT !.deletes = @ \cup {address}])

(***************************************************************************)
(* What a caller can observe of layer i: the results of every query, and   *)
(* the layer's logs.                                                       *)
(***************************************************************************)
Observe(s, i) ==
    [basic |-> [a \in Addr |-> known_basic(s, i, a)],
     code |-> [a \in Addr |-> known_code(s, i, a)],
     empty |-> [a \in Addr |-> known_empty(s, i, a)],
     storage |-> [ak \in Addr \X Key |-> known_storage(s, i, ak[1], ak[2])],
     original |-> [ak \in Addr \X Key |-> known_original_storage(s, i, ak[1], ak[2])],
     deleted |-> [a \in Addr |-> deleted(s, i, a)],
     logs |-> s[i].logs]

NoSnap == [none |-> TRUE]
NoEv == [op |-> "none"]

\* What the layer taken off the stack held, how it related to its parent, and
\* (view) what the parent showed when that layer was opened.
ExitEvent(op, s, view) ==
    LET child == Top(s)
        self == s[Len(s) - 1]
        both == (DOMAIN child.storages) \cap (DOMAIN self.storages)
    IN [op |-> op,
        view |-> view,
        hadLogs |-> child.logs # <<>>,
        hadAccounts |-> DOMAIN child.accounts # {},
        hadStorages |-> DOMAIN child.storages # {},
        hadDeletes |-> child.deletes # {},
        overStorage |-> \E ak \in both : child.storages[ak] # self.storages[ak],
        keptStorage |-> (DOMAIN self.storages) \ (DOMAIN child.storages) # {},
        overAccount |-> \E a \in (DOMAIN child.accounts) \cap (DOMAIN self.accounts) :
                           child.accounts[a] # self.accounts[a],
        keptAccount |-> (DOMAIN self.accounts) \ (DOMAIN child.accounts) # {},
        bothDeletes |-> child.deletes \ self.deletes # {}
                        /\ self.deletes \ child.deletes # {}]

(***************************************************************************)
(* Operations on the substate stack.                                       *)
(***************************************************************************)
\* A fresh root substate over the backend.
SubStart ==
    /\ substate = <<new>>
    /\ backend = [a \in Addr |-> [nonce |-> 0, balance |-> IF a = "a1" THEN 1 ELSE 0]]
    /\ aborted = FALSE
    /\ nwrites = 0
    /\ nlogs = 0
    /\ ev = NoEv
    /\ snap = <<NoSnap>>
    /\ wrote = <<EmptyMap>>

\* No machine has been constructed.
\* A transaction that is executing: initialize has been called, finalize has
\* not.
NoTx == [phase |-> "run"]

NoMachine ==
    /\ machines = <<>>
    /\ panicked = FALSE
    /\ ninstr = 0
    /\ last = NoEv
    /\ tx = NoTx

SubInit == SubStart /\ NoMachine

\* A write leaves the layering alone.
Written ==
    /\ nwrites' = nwrites + 1
    /\ ev' = NoEv
    /\ UNCHANGED <<backend, aborted, snap>>
    /\ UNCHANGED machvars

CanWrite == ~aborted /\ nwrites < MaxWrites

Enter ==
    /\ ~aborted
    /\ Len(substate) < MaxDepth
    /\ substate' = enter(substate)
    /\ snap' = Append(snap, Observe(substate, Len(substate)))
    /\ wrote' = Append(wrote, EmptyMap)
    /\ ev' = NoEv
    /\ UNCHANGED <<backend, aborted, nwrites, nlogs>>
    /\ UNCHANGED machvars

Commit ==
    /\ ~aborted
    /\ Len(substate) > 1
    /\ \E swallowed \in BOOLEAN :
         /\ substate' = commit(substate, swallowed)
         /\ ev' = ExitEvent(IF swallowed THEN "commit" ELSE "commit_err",
                            substate, Top(snap))
         /\ wrote' = IF swallowed
                     THEN SetTop(Parents(wrote),
                                 MapAppend(wrote[Len(wrote) - 1], Top(wrote)))
                     ELSE Parents(wrote)
    /\ snap' = Parents(snap)
    /\ UNCHANGED <<backend, aborted, nwrites, nlogs>>
    /\ UNCHANGED machvars

Discard ==
    /\ ~aborted
    /\ Len(substate) > 1
    /\ substate' = discard(substate)
    /\ ev' = ExitEvent("discard", substate, Top(snap))
    /\ snap' = Parents(snap)
    /\ wrote' = Parents(wrote)
    /\ UNCHANGED <<backend, aborted, nwrites, nlogs>>
    /\ UNCHANGED machvars

\* commit or discard on the root substate: parent.take().expect(..) panics.
ExitRoot ==
    /\ ~aborted
    /\ Len(substate) = 1
    /\ aborted' = TRUE
    /\ ev' = [op |-> "panic"]
    /\ UNCHANGED <<substate, backend, nwrites, nlogs, snap, wrote>>
    /\ UNCHANGED machvars

IncNonce ==
    /\ CanWrite
    /\ \E address \in Addr :
         /\ substate' = inc_nonce(substate, address, backend)
    /\ Written
    /\ UNCHANGED <<wrote, nlogs>>

SetStorage ==
    /\ CanWrite
    /\ \E address \in Addr, key \in Key, value \in H256Val :
         /\ substate' = set_storage(substate, address, key, value)
         /\ wrote' = SetTop(wrote, Put(Top(wrote), <<address, key>>, value))
    /\ Written
    /\ UNCHANGED nlogs

ResetStorage ==
    /\ CanWrite
    /\ \E address \in Addr :
         /\ substate' = reset_storage(substate, address, backend)
         /\ wrote' = SetTop(wrote, MapAppend(Top(wrote),
                              [ak \in {address} \X Key |-> H256Zero]))
    /\ Written
    /\ UNCHANGED nlogs

Log ==
    /\ CanWrite
    /\ substate' = log(substate, LogEntry(nlogs + 1))
    /\ nlogs' = nlogs + 1
    /\ Written
    /\ UNCHANGED wrote

SetDeleted ==
    /\ CanWrite
    /\ \E address \in Addr : substate' = set_deleted(substate, address)
    /\ Written
    /\ UNCHANGED <<wrote, nlogs>>

SubNext ==
    \/ Enter
    \/ Commit
    \/ Discard
    \/ ExitRoot
    \/ IncNonce
    \/ SetStorage
    \/ ResetStorage
    \/ Log
    \/ SetDeleted

SubSpec == SubInit /\ [][SubNext]_vars

(***************************************************************************)
(* Properties of the substate stack.                                       *)
(***************************************************************************)
Cur == Len(substate)
AllKeys == Addr \X Key

\* C1: after discard() the parent layer is current again, and every query on
\* it (known_basic, known_code, known_empty, known_storage,
\* known_original_storage, deleted) and its logs return exactly what they
\* returned immediately before the discarded child layer was opened, whatever
\* the child and its descendants wrote.
C1_DiscardRestoresParent ==
    ev.op = "discard" => Observe(substate, Cur) = ev.view

\* A child that held storage and account entries and logs or self-destructs
\* has just been discarded.
C1_Witness ==
    /\ ev.op = "discard"
    /\ ev.hadStorages
    /\ ev.hadAccounts
    /\ (ev.hadLogs \/ ev.hadDeletes)

\* The current layer has neither written nor reset the storage of address.
StorageUntouched(address) ==
    \A key \in Key : <<address, key>> \notin DOMAIN Top(wrote)

\* C2: known_storage read from the current layer returns the nearest write on
\* the current layer or its ancestors; in particular a value written by a
\* parent layer is still returned when the child layer has only touched the
\* account of that address (inc_nonce) without writing or resetting its
\* storage.
C2_TouchedAccountKeepsStorage ==
    \A ak \in AllKeys :
        (Cur > 1 /\ StorageUntouched(ak[1]))
            => known_storage(substate, Cur, ak[1], ak[2])
                 = known_storage(substate, Cur - 1, ak[1], ak[2])

\* C3: when a child layer is committed, the logs it emitted are appended to
\* the parent's logs, after the logs the parent had emitted before the child
\* was opened and in emission order.
C3_CommitAppendsLogs ==
    [][ev'.op = "commit"
         => Top(substate').logs = substate[Cur - 1].logs \o Top(substate).logs]_vars

\* The entry of map m under key x, None when absent.
Entry(m, x) == IF x \in DOMAIN m THEN Some(m[x]) ELSE None

\* C4: commit() merges the child layer into its parent: for every account
\* address and every (address, key) a child entry replaces the parent entry
\* with the same key, parent entries the child did not write are kept, and
\* the deleted set becomes the union of both; so the parent afterwards holds
\* the value of the child committed last, and a layer opened next reads the
\* values committed before it.
C4_CommitMerges ==
    [][/\ ev'.op = "commit" =>
            LET child == Top(substate)
                self == substate[Cur - 1]
                merged == Top(substate')
            IN /\ Len(substate') = Cur - 1
               /\ \A a \in Addr :
                    Entry(merged.accounts, a) =
                        IF a \in DOMAIN child.accounts
                        THEN Some(child.accounts[a])
                        ELSE Entry(self.accounts, a)
               /\ \A ak \in AllKeys :
                    Entry(merged.storages, ak) =
                        IF ak \in DOMAIN child.storages
                        THEN Some(child.storages[ak])
                        ELSE Entry(self.storages, ak)
               /\ merged.deletes = self.deletes \cup child.deletes
               /\ \A ak \in DOMAIN child.storages :
                    known_storage(substate', Cur - 1, ak[1], ak[2])
                        = Some(child.storages[ak])
       /\ Len(substate') = Cur + 1 =>
            \A ak \in AllKeys :
                known_storage(substate', Cur + 1, ak[1], ak[2])
                    = known_storage(substate, Cur, ak[1], ak[2])
      ]_vars

\* A commit has just replaced a storage entry of the parent by a different
\* value of the child and kept another entry of the parent.
C4_Witness ==
    /\ ev.op = "commit"
    /\ ev.overStorage
    /\ ev.keptStorage

\* C5: every write operation (set_storage, reset_storage, inc_nonce, log,
\* set_deleted) changes only the maps of the current layer: the layering and
\* every ancestor layer are unchanged by it.
C5_WritesOnlyCurrentLayer ==
    [][nwrites' = nwrites + 1
         => /\ Len(substate') = Cur
            /\ \A i \in 1..(Cur - 1) : substate'[i] = substate[i]]_vars

\* A child layer holds its own storage and account entries above a parent
\* that holds storage entries.
C5_Witness ==
    /\ Cur > 1
    /\ DOMAIN substate[Cur - 1].storages # {}
    /\ DOMAIN Top(substate).storages # {}
    /\ DOMAIN Top(substate).accounts # {}

(***************************************************************************)
(* The machine: State, Context, Patch and the helpers of the instructions. *)
(***************************************************************************)
callstack_limit == 1024
callStipend == 2300
callValueTransferGas == 9000
callBase == 40
createBase == 32000
codeDepositByte == 200

Frontier == [callstack_limit |-> callstack_limit,
             call_create_l64_after_gas |-> FALSE,
             force_code_deposit |-> TRUE]
EIP150 == [callstack_limit |-> callstack_limit,
           call_create_l64_after_gas |-> TRUE,
           force_code_deposit |-> FALSE]
Patches == {Frontier, EIP150}

Running == [tag |-> "Running"]
ExitedOk == [tag |-> "ExitedOk"]
ExitedErr == [tag |-> "ExitedErr"]
InvokeCreate(context) == [tag |-> "InvokeCreate", context |-> context]
InvokeCall(context, out_start, out_len) ==
    [tag |-> "InvokeCall", context |-> context,
     out_start |-> out_start, out_len |-> out_len]
Invoking == {"InvokeCall", "InvokeCreate"}
Exited == {"ExitedOk", "ExitedErr"}

\* AccountState: balance, nonce and code of every account.
balance(account_state, address) == account_state.balance[address]
increase_balance(account_state, address, value) ==
    [account_state EXCEPT !.balance[address] = @ + value]
decrease_balance(account_state, address, value) ==
    [account_state EXCEPT !.balance[address] = @ - value]
account_create(account_state, address, value) ==
    [account_state EXCEPT !.balance[address] = value,
                          !.nonce[address] = 0,
                          !.code[address] = <<>>]
account_code_deposit(account_state, address, code) ==
    [account_state EXCEPT !.code[address] = code]

\* Memory: the bytes written so far; every other byte reads as zero.
read(memory, i) == IF i \in DOMAIN memory THEN memory[i] ELSE 0
copy_from_memory(memory, start, len) ==
    [i \in 1..len |-> read(memory, start + i - 1)]
copy_into_memory(memory, values, start, value_start, len) ==
    [x \in (DOMAIN memory) \cup (start..(start + len - 1)) |->
        IF x >= start /\ x < start + len
        THEN IF value_start + (x - start) < Len(values)
             THEN values[value_start + (x - start) + 1]
             ELSE 0
        ELSE memory[x]]

l64(gas) == gas - (gas \div 64)
Min(a, b) == IF a < b THEN a ELSE b
code_deposit_gas(len) == codeDepositByte * len

memory_gas(state) == state.memory_gas
total_used_gas(state) == memory_gas(state) + state.used_gas
available_gas(state) == state.context.gas_limit - total_used_gas(state)

\* pop!(state, a, b, ..): arg(state, 0) is a, arg(state, 1) is b, ..
arg(state, i) == state.stack[Len(state.stack) - i]
pop(state, n) == [state EXCEPT !.stack = SubSeq(@, 1, Len(@) - n)]
push(state, v) == [state EXCEPT !.stack = Append(@, v)]

create_address(caller, nonce) == 3

\* ValidTransaction::into_context for a nested transaction: the context of
\* the sub-machine and the account state of the machine that invokes it.
into_context(transaction, account_state) ==
    IF transaction.action.tag = "Create"
    THEN LET nonce == account_state.nonce[transaction.caller]
         IN [context |-> [address |-> create_address(transaction.caller, nonce),
                          caller |-> transaction.caller,
                          value |-> transaction.value,
                          gas_price |-> transaction.gas_price,
                          gas_limit |-> transaction.gas_limit],
             account_state |->
                 [account_state EXCEPT !.nonce[transaction.caller] = nonce + 1]]
    ELSE [context |-> [address |-> transaction.action.to,
                       caller |-> transaction.caller,
                       value |-> transaction.value,
                       gas_price |-> transaction.gas_price,
                       gas_limit |-> transaction.gas_limit],
          account_state |-> account_state]

Create == [tag |-> "Create"]
Call(to) == [tag |-> "Call", to |-> to]

\* The result of an instruction: the state it leaves and its Option<Control>.
Result(state, control) == [state |-> state, control |-> control]

(***************************************************************************)
(* System instructions (src/src/vm/eval/run/system.rs).                    *)
(***************************************************************************)
\* A suicide that records the address whether it is recorded already or not.
suicide_records_again(state) ==
    LET address == arg(state, 0)
        popped == pop(state, 1)
        self == popped.context.address
        increased == increase_balance(popped.account_state, address,
                                      balance(popped.account_state, self))
    IN Result([popped EXCEPT
                 !.removed = Append(popped.removed, self),
                 !.account_state =
                     decrease_balance(increased, self, balance(increased, self))],
              None)

suicide(state) ==
    LET address == arg(state, 0)
        popped == pop(state, 1)
        self == popped.context.address
        removed == IF \E i \in 1..Len(popped.removed) : popped.removed[i] = self
                   THEN popped.removed
                   ELSE Append(popped.removed, self)
        increased == increase_balance(popped.account_state, address,
                                      balance(popped.account_state, self))
    IN Result([popped EXCEPT
                 !.removed = removed,
                 !.account_state =
                     decrease_balance(increased, self, balance(increased, self))],
              None)

system_log(state, topic_len) ==
    LET index == arg(state, 0)
        len == arg(state, 1)
        popped == pop(state, 2)
        data == copy_from_memory(popped.memory, index, len)
        topics == [i \in 1..topic_len |-> arg(popped, i - 1)]
    IN Result([pop(popped, topic_len) EXCEPT
                 !.logs = Append(@, [address |-> popped.context.address,
                                     data |-> data,
                                     topics |-> topics])],
              None)

\* try_callstack_limit! and try_balance!: TRUE when the macro pushes zero and
\* returns None.
try_callstack_limit(state) == state.depth > state.patch.callstack_limit

\* A balance test that refuses nothing.
try_balance_never(state, value) == FALSE

try_balance(state, value) ==
    balance(state.account_state, state.context.address) < value

\* A create that hands on all the remaining gas whatever the patch says.
create_without_l64(state, after_gas) ==
    LET value == arg(state, 0)
        popped == pop(state, 3)
    IN IF try_callstack_limit(popped) THEN Result(push(popped, 0), None)
       ELSE IF try_balance(popped, value) THEN Result(push(popped, 0), None)
       ELSE LET transaction == [caller |-> popped.context.address,
                                gas_price |-> popped.context.gas_price,
                                gas_limit |-> after_gas,
                                value |-> value,
                                action |-> Create]
                made == into_context(transaction, popped.account_state)
            IN Result(push([popped EXCEPT !.account_state = made.account_state],
                           made.context.address),
                      Some(InvokeCreate(made.context)))

create(state, after_gas) ==
    LET l64_after_gas == IF state.patch.call_create_l64_after_gas
                         THEN l64(after_gas) ELSE after_gas
        value == arg(state, 0)
        init_start == arg(state, 1)
        init_len == arg(state, 2)
        popped == pop(state, 3)
    IN IF try_callstack_limit(popped) THEN Result(push(popped, 0), None)
       ELSE IF try_balance(popped, value) THEN Result(push(popped, 0), None)
       ELSE LET transaction == [caller |-> popped.context.address,
                                gas_price |-> popped.context.gas_price,
                                gas_limit |-> l64_after_gas,
                                value |-> value,
                                action |-> Create]
                made == into_context(transaction, popped.account_state)
            IN Result(push([popped EXCEPT !.account_state = made.account_state],
                           made.context.address),
                      Some(InvokeCreate(made.context)))

\* A call that hands the requested gas to the sub-machine without capping it.
call_uncapped(state, stipend_gas, after_gas, as_self) ==
    LET popped == pop(state, 7)
        context == [address |-> IF as_self THEN popped.context.address
                                ELSE arg(state, 1),
                    caller |-> popped.context.address,
                    value |-> arg(state, 2),
                    gas_price |-> popped.context.gas_price,
                    gas_limit |-> arg(state, 0) + stipend_gas]
    IN IF try_callstack_limit(popped) \/ try_balance(popped, arg(state, 2))
       THEN Result(push(popped, 0), None)
       ELSE Result(push(popped, 1),
                   Some(InvokeCall(context, arg(state, 5), arg(state, 6))))

\* A call that hands the stipend on twice.
call_stipend_twice(state, stipend_gas, after_gas, as_self) ==
    LET l64_after_gas == IF state.patch.call_create_l64_after_gas
                         THEN l64(after_gas) ELSE after_gas
        gas == arg(state, 0)
        to == arg(state, 1)
        value == arg(state, 2)
        out_start == arg(state, 5)
        out_len == arg(state, 6)
        popped == pop(state, 7)
        gas_limit == Min(gas, l64_after_gas) + 2 * stipend_gas
    IN IF try_callstack_limit(popped) THEN Result(push(popped, 0), None)
       ELSE IF try_balance(popped, value) THEN Result(push(popped, 0), None)
       ELSE LET transaction == [caller |-> popped.context.address,
                                gas_price |-> popped.context.gas_price,
                                gas_limit |-> gas_limit,
                                value |-> value,
                                action |-> Call(to)]
                made == into_context(transaction, popped.account_state)
                context == IF as_self
                           THEN [made.context EXCEPT
                                   !.address = popped.context.address]
                           ELSE made.context
            IN Result(push([popped EXCEPT !.account_state = made.account_state], 1),
                      Some(InvokeCall(context, out_start, out_len)))

call(state, stipend_gas, after_gas, as_self) ==
    LET l64_after_gas == IF state.patch.call_create_l64_after_gas
                         THEN l64(after_gas) ELSE after_gas
        gas == arg(state, 0)
        to == arg(state, 1)
        value == arg(state, 2)
        out_start == arg(state, 5)
        out_len == arg(state, 6)
        popped == pop(state, 7)
        gas_limit == Min(gas, l64_after_gas) + stipend_gas
    IN IF try_callstack_limit(popped) THEN Result(push(popped, 0), None)
       ELSE IF try_balance(popped, value) THEN Result(push(popped, 0), None)
       ELSE LET transaction == [caller |-> popped.context.address,
                                gas_price |-> popped.context.gas_price,
                                gas_limit |-> gas_limit,
                                value |-> value,
                                action |-> Call(to)]
                made == into_context(transaction, popped.account_state)
                context == IF as_self
                           THEN [made.context EXCEPT
                                   !.address = popped.context.address]
                           ELSE made.context
            IN Result(push([popped EXCEPT !.account_state = made.account_state], 1),
                      Some(InvokeCall(context, out_start, out_len)))

delegate_call(state, after_gas) ==
    LET l64_after_gas == IF state.patch.call_create_l64_after_gas
                         THEN l64(after_gas) ELSE after_gas
        gas == arg(state, 0)
        to == arg(state, 1)
        out_start == arg(state, 4)
        out_len == arg(state, 5)
        popped == pop(state, 6)
        gas_limit == Min(gas, l64_after_gas)
    IN IF try_callstack_limit(popped) THEN Result(push(popped, 0), None)
       ELSE LET transaction == [caller |-> popped.context.caller,
                                gas_price |-> popped.context.gas_price,
                                gas_limit |-> gas_limit,
                                value |-> popped.context.value,
                                action |-> Call(to)]
                made == into_context(transaction, popped.account_state)
                context == [made.context EXCEPT
                              !.value = 0,
                              !.address = popped.context.address]
            IN Result(push([popped EXCEPT !.account_state = made.account_state], 1),
                      Some(InvokeCall(context, out_start, out_len)))

(***************************************************************************)
(* One step of a machine on a system instruction, and derive.              *)
(***************************************************************************)
CallOps == {"call", "callcode"}
InvokeOps == {"call", "callcode", "delegatecall", "create"}

\* The value a CALL, CALLCODE or CREATE is about to transfer.
value_of(op, state) == IF op = "create" THEN arg(state, 0) ELSE arg(state, 2)

gas_stipend(op, state) ==
    IF op \in CallOps /\ arg(state, 2) # 0 THEN callStipend ELSE 0

gas_cost(op, state) ==
    CASE op \in CallOps ->
           callBase + (IF arg(state, 2) # 0 THEN callValueTransferGas ELSE 0)
      [] op = "delegatecall" -> callBase
      [] op = "create" -> createBase
      [] OTHER -> 0

run_opcode(op, state, stipend_gas, after_gas) ==
    CASE op = "call" -> call(state, stipend_gas, after_gas, FALSE)
      [] op = "callcode" -> call(state, stipend_gas, after_gas, TRUE)
      [] op = "delegatecall" -> delegate_call(state, after_gas)
      [] op = "create" -> create(state, after_gas)
      [] op = "suicide" -> suicide(state)
      [] op = "log" -> system_log(state, 0)

\* TRUE when the machine cannot pay for the instruction.
empty_gas(op, state) ==
    state.context.gas_limit < memory_gas(state) + state.used_gas + gas_cost(op, state)

\* Machine::step on instruction op: the gas test, the instruction, the charge
\* (the stipend is handed on to the sub-machine and is not charged here).
step(machine, op) ==
    LET state == machine.state
        cost == gas_cost(op, state)
        stipend == gas_stipend(op, state)
        after_gas == state.context.gas_limit
                       - (memory_gas(state) + state.used_gas + cost)
        result == run_opcode(op, state, stipend, after_gas)
    IN IF empty_gas(op, state)
       THEN [machine EXCEPT !.status = ExitedErr]
       ELSE [status |-> IF result.control = None THEN Running
                        ELSE result.control[1],
             state |-> [result.state EXCEPT !.used_gas = @ + cost - stipend]]

\* Machine::derive: the sub-machine for context, one level deeper, starting
\* from this machine's account state, logs and removed list.
derive(machine, context) ==
    [status |-> Running,
     state |-> [patch |-> machine.state.patch,
                depth |-> machine.state.depth + 1,
                context |-> context,
                used_gas |-> 0,
                memory_gas |-> 0,
                refunded_gas |-> 0,
                stack |-> <<>>,
                memory |-> EmptyMap,
                out |-> <<>>,
                account_state |-> machine.state.account_state,
                blockhash_state |-> machine.state.blockhash_state,
                logs |-> machine.state.logs,
                removed |-> machine.state.removed]]

(***************************************************************************)
(* Lifecycle of a Machine (src/sputnikvm/src/vm/eval/lifecycle.rs).        *)
(***************************************************************************)
\* The outcome of a lifecycle method: the machine it leaves, and whether it
\* panicked.
Done(machine) == [machine |-> machine, panic |-> FALSE]
Panic(machine) == [machine |-> machine, panic |-> TRUE]

initialize_call(machine, preclaimed_value) ==
    LET context == machine.state.context
    IN [machine EXCEPT !.state.account_state =
          increase_balance(
              decrease_balance(
                  decrease_balance(@, context.caller, preclaimed_value),
                  context.caller, context.value),
              context.address, context.value)]

invoke_call(machine) ==
    LET context == machine.state.context
    IN [machine EXCEPT !.state.account_state =
          increase_balance(decrease_balance(@, context.caller, context.value),
                           context.address, context.value)]

invoke_create(machine) ==
    LET context == machine.state.context
    IN [machine EXCEPT !.state.account_state =
          account_create(decrease_balance(@, context.caller, context.value),
                         context.address, context.value)]

initialize_create(machine, preclaimed_value) ==
    LET context == machine.state.context
    IN [machine EXCEPT !.state.account_state =
          account_create(
              decrease_balance(
                  decrease_balance(@, context.caller, preclaimed_value),
                  context.caller, context.value),
              context.address, context.value)]

\* code_deposit without the test of the status.
code_deposit_in_any_status(machine) ==
    LET state == machine.state
        deposit_cost == code_deposit_gas(Len(state.out))
    IN IF deposit_cost > available_gas(state)
       THEN IF ~state.patch.force_code_deposit
            THEN Done([machine EXCEPT !.status = ExitedErr])
            ELSE Done([machine EXCEPT !.state.account_state =
                         account_code_deposit(@, state.context.address, <<>>)])
       ELSE Done([machine EXCEPT
                    !.state.used_gas = @ + deposit_cost,
                    !.state.account_state =
                        account_code_deposit(@, state.context.address, state.out)])

code_deposit(machine) ==
    LET state == machine.state
        deposit_cost == code_deposit_gas(Len(state.out))
    IN IF machine.status.tag \notin Exited THEN Panic(machine)
       ELSE IF deposit_cost > available_gas(state)
       THEN IF ~state.patch.force_code_deposit
            THEN Done([machine EXCEPT !.status = ExitedErr])
            ELSE Done([machine EXCEPT !.state.account_state =
                         account_code_deposit(@, state.context.address, <<>>)])
       ELSE Done([machine EXCEPT
                    !.state.used_gas = @ + deposit_cost,
                    !.state.account_state =
                        account_code_deposit(@, state.context.address, state.out)])

\* finalize with the reset of the error branch left out.
finalize_keeps_changes(machine, real_used_gas, preclaimed_value, fresh_account_state) ==
    IF machine.status.tag \notin Exited THEN Panic(machine)
    ELSE LET gas_dec == real_used_gas * machine.state.context.gas_price
         IN Done([machine EXCEPT !.state.account_state =
                    decrease_balance(
                        increase_balance(@, machine.state.context.caller,
                                         preclaimed_value),
                        machine.state.context.caller, gas_dec)])

\* finalize that gives the preclaimed value back twice.
finalize_returns_twice(machine, real_used_gas, preclaimed_value, fresh_account_state) ==
    IF machine.status.tag \notin Exited THEN Panic(machine)
    ELSE LET caller == machine.state.context.caller
             reset == IF machine.status.tag = "ExitedErr"
                      THEN [machine.state EXCEPT
                              !.account_state =
                                  decrease_balance(fresh_account_state, caller,
                                                   preclaimed_value),
                              !.logs = <<>>,
                              !.removed = <<>>]
                      ELSE machine.state
             gas_dec == real_used_gas * machine.state.context.gas_price
         IN Done([machine EXCEPT !.state = [reset EXCEPT !.account_state =
                    decrease_balance(
                        increase_balance(@, caller, 2 * preclaimed_value),
                        caller, gas_dec)]])

\* finalize: an error exit resets the account state to the fresh one, less
\* the preclaimed value, and empties the logs and the removed list; then the
\* caller gets the preclaimed value back and pays for the gas really used.
finalize(machine, real_used_gas, preclaimed_value, fresh_account_state) ==
    IF machine.status.tag \notin Exited THEN Panic(machine)
    ELSE LET caller == machine.state.context.caller
             reset == IF machine.status.tag = "ExitedErr"
                      THEN [machine.state EXCEPT
                              !.account_state =
                                  decrease_balance(fresh_account_state, caller,
                                                   preclaimed_value),
                              !.logs = <<>>,
                              !.removed = <<>>]
                      ELSE machine.state
             gas_dec == real_used_gas * machine.state.context.gas_price
         IN Done([machine EXCEPT !.state = [reset EXCEPT !.account_state =
                    decrease_balance(
                        increase_balance(@, caller, preclaimed_value),
                        caller, gas_dec)]])

apply_create(machine, sub) ==
    LET state == machine.state
        merged == [state EXCEPT
                     !.account_state = sub.state.account_state,
                     !.blockhash_state = sub.state.blockhash_state,
                     !.logs = sub.state.logs,
                     !.removed = sub.state.removed,
                     !.used_gas = @ + total_used_gas(sub.state),
                     !.refunded_gas = @ + sub.state.refunded_gas]
        deposit_cost == code_deposit_gas(Len(sub.state.out))
    IN IF available_gas(state) < sub.state.used_gas THEN Panic(machine)
       ELSE CASE sub.status.tag = "ExitedOk" ->
                   IF available_gas(merged) >= deposit_cost
                   THEN Done([machine EXCEPT !.state = [merged EXCEPT
                          !.used_gas = @ + deposit_cost,
                          !.account_state = account_code_deposit(
                              @, sub.state.context.address, sub.state.out)]])
                   ELSE Done([machine EXCEPT !.state = [merged EXCEPT
                          !.account_state = account_code_deposit(
                              @, sub.state.context.address, <<>>)]])
              [] sub.status.tag = "ExitedErr" ->
                   Done([machine EXCEPT !.state = push(pop(
                          [state EXCEPT !.used_gas = @ + sub.state.context.gas_limit],
                          1), 0)])
              [] OTHER -> Panic(machine)

\* An apply_call that charges a failed sub-machine's used gas only.
apply_call_charges_used(machine, sub, out_start, out_len) ==
    LET state == machine.state
    IN IF available_gas(state) < sub.state.used_gas THEN Panic(machine)
       ELSE CASE sub.status.tag = "ExitedOk" ->
                   Done([machine EXCEPT !.state = [state EXCEPT
                          !.account_state = sub.state.account_state,
                          !.blockhash_state = sub.state.blockhash_state,
                          !.logs = sub.state.logs,
                          !.removed = sub.state.removed,
                          !.used_gas = @ + total_used_gas(sub.state),
                          !.refunded_gas = @ + sub.state.refunded_gas,
                          !.memory = copy_into_memory(@, sub.state.out,
                                                      out_start, 0, out_len)]])
              [] sub.status.tag = "ExitedErr" ->
                   Done([machine EXCEPT !.state = push(pop(
                          [state EXCEPT !.used_gas = @ + total_used_gas(sub.state)],
                          1), 0)])
              [] OTHER -> Panic(machine)

\* An apply_call that takes the state of a sub-machine whatever its status.
apply_call_any_status(machine, sub, out_start, out_len) ==
    Done([machine EXCEPT !.state = [machine.state EXCEPT
            !.account_state = sub.state.account_state,
            !.logs = sub.state.logs,
            !.removed = sub.state.removed,
            !.used_gas = @ + total_used_gas(sub.state)]])

\* apply_call that copies the whole output of the sub-machine, whatever the
\* length of the window.
apply_call_copies_all(machine, sub, out_start, out_len) ==
    LET state == machine.state
    IN IF available_gas(state) < sub.state.used_gas THEN Panic(machine)
       ELSE CASE sub.status.tag = "ExitedOk" ->
                   Done([machine EXCEPT !.state = [state EXCEPT
                          !.account_state = sub.state.account_state,
                          !.blockhash_state = sub.state.blockhash_state,
                          !.logs = sub.state.logs,
                          !.removed = sub.state.removed,
                          !.used_gas = @ + total_used_gas(sub.state),
                          !.refunded_gas = @ + sub.state.refunded_gas,
                          !.memory = copy_into_memory(@, sub.state.out, out_start,
                                                      0, Len(sub.state.out))]])
              [] sub.status.tag = "ExitedErr" ->
                   Done([machine EXCEPT !.state = push(pop(
                          [state EXCEPT !.used_gas = @ + sub.state.context.gas_limit],
                          1), 0)])
              [] OTHER -> Panic(machine)

apply_call(machine, sub, out_start, out_len) ==
    LET state == machine.state
    IN IF available_gas(state) < sub.state.used_gas THEN Panic(machine)
       ELSE CASE sub.status.tag = "ExitedOk" ->
                   Done([machine EXCEPT !.state = [state EXCEPT
                          !.account_state = sub.state.account_state,
                          !.blockhash_state = sub.state.blockhash_state,
                          !.logs = sub.state.logs,
                          !.removed = sub.state.removed,
                          !.used_gas = @ + total_used_gas(sub.state),
                          !.refunded_gas = @ + sub.state.refunded_gas,
                          !.memory = copy_into_memory(@, sub.state.out,
                                                      out_start, 0, out_len)]])
              [] sub.status.tag = "ExitedErr" ->
                   Done([machine EXCEPT !.state = push(pop(
                          [state EXCEPT !.used_gas = @ + sub.state.context.gas_limit],
                          1), 0)])
              [] OTHER -> Panic(machine)

\* Machine::apply_sub: the status is swapped for Running, then matched.
apply_sub(machine, sub) ==
    LET running == [machine EXCEPT !.status = Running]
    IN CASE machine.status.tag = "InvokeCreate" -> apply_create(running, sub)
         [] machine.status.tag = "InvokeCall" ->
              apply_call(running, sub, machine.status.out_start,
                         machine.status.out_len)
         [] OTHER -> Panic(running)

(***************************************************************************)
(* The machines of one transaction.                                        *)
(***************************************************************************)
Values == {0, 1, 2}
Outs == {<<7, 8>>}

\* The operands a program pushes before a system instruction, the first one
\* popped last in the sequence.
Operands(op) ==
    CASE op = "call" ->
           {<<3, 0, 0, 0, value, 2, gas>> : value \in Values, gas \in {0, BigGas}}
      [] op = "callcode" -> {<<1, 1, 0, 0, value, 2, BigGas>> : value \in Values}
      [] op = "delegatecall" -> {<<2, 1, 0, 0, 2, BigGas>>}
      [] op = "create" -> {<<0, 0, value>> : value \in Values}
      [] op = "suicide" -> {<<2>>}
      [] op = "log" -> {<<0, 0>>}

\* The machine of a transaction on account 1, at call depth depth.
Transaction(patch, depth) ==
    [status |-> Running,
     state |-> [patch |-> patch,
                depth |-> depth,
                context |-> [address |-> 1, caller |-> 2, value |-> 0,
                             gas_price |-> 1, gas_limit |-> GasLimit],
                used_gas |-> 0,
                memory_gas |-> 0,
                refunded_gas |-> 0,
                stack |-> <<>>,
                memory |-> EmptyMap,
                out |-> <<>>,
                account_state |-> [balance |-> [a \in 1..3 |-> IF a = 1 THEN 1 ELSE 0],
                                   nonce |-> [a \in 1..3 |-> 0],
                                   code |-> [a \in 1..3 |-> <<>>]],
                blockhash_state |-> EmptyMap,
                logs |-> <<>>,
                removed |-> <<>>]]

\* The machine is the top of a chain of nested calls: the first machine of
\* the model stands at depth 0 or, after callstack_limit nested calls, at
\* depth callstack_limit.
MachInit ==
    /\ SubStart
    /\ \E patch \in Patches, depth \in {0, callstack_limit} :
         machines = <<Transaction(patch, depth)>>
    /\ panicked = FALSE
    /\ ninstr = 0
    /\ last = NoEv
    /\ tx = NoTx

Current == Top(machines)
CanStep ==
    /\ ~panicked
    /\ tx.phase = "run"
    /\ Len(machines) > 0
    /\ Current.status.tag = "Running"

\* The program pushes the operands of its next system instruction.
PushOperands ==
    /\ CanStep
    /\ last.op # "push"
    /\ ninstr < MaxInstr
    /\ \E op \in InvokeOps \cup {"suicide", "log"} : \E operands \in Operands(op) :
         /\ machines' = SetTop(machines,
                               [Current EXCEPT !.state.stack = @ \o operands])
         /\ last' = [op |-> "push", for |-> op]
    /\ UNCHANGED <<panicked, ninstr>>
    /\ UNCHANGED subvars
    /\ UNCHANGED tx

\* The machine steps on system instruction op, whose operands are in place.
Instruction(op) ==
    /\ last = [op |-> "push", for |-> op]
    /\ machines' = SetTop(machines, step(Current, op))
    /\ last' = IF empty_gas(op, Current.state) THEN [op |-> "empty_gas"]
               ELSE [op |-> op, refused |-> Top(machines').status.tag = "Running"]
    /\ ninstr' = ninstr + 1
    /\ UNCHANGED panicked
    /\ UNCHANGED subvars
    /\ UNCHANGED tx

CallInstr == CanStep /\ Instruction("call")
CallCodeInstr == CanStep /\ Instruction("callcode")
DelegateCallInstr == CanStep /\ Instruction("delegatecall")
CreateInstr == CanStep /\ Instruction("create")
SuicideInstr == CanStep /\ Instruction("suicide")
LogInstr == CanStep /\ Instruction("log")

\* The memory once the program has stored a word of 9s at its start.
StoredWord == [x \in 0..3 |-> 9]

\* The plain instructions the program begins with: together they cost gas
\* and may expand the memory by storing to it, and they touch nothing else.
UseGas ==
    /\ CanStep
    /\ last.op # "push"
    /\ total_used_gas(Current.state) = 0
    /\ \E memory \in {0, MemGas} :
       \E gas \in {GasStep, available_gas(Current.state) - memory} :
         /\ gas > 0
         /\ gas + memory <= available_gas(Current.state)
         /\ machines' = SetTop(machines, [Current EXCEPT
                                            !.state.used_gas = @ + gas,
                                            !.state.memory_gas = memory,
                                            !.state.memory =
                                                IF memory = 0 THEN @ ELSE StoredWord])
    /\ last' = [op |-> "use_gas"]
    /\ UNCHANGED <<panicked, ninstr>>
    /\ UNCHANGED subvars
    /\ UNCHANGED tx

\* The machine stops: with output out, or with an error.
Exit ==
    /\ CanStep
    /\ last.op # "push"
    /\ \/ \E out \in Outs :
            machines' = SetTop(machines, [Current EXCEPT !.status = ExitedOk,
                                                         !.state.out = out])
       \/ machines' = SetTop(machines, [Current EXCEPT !.status = ExitedErr])
    /\ last' = [op |-> "exit"]
    /\ UNCHANGED <<panicked, ninstr>>
    /\ UNCHANGED subvars
    /\ UNCHANGED tx

\* The invoking machine derives its sub-machine, which is invoked.
Derive ==
    /\ ~panicked
    /\ Len(machines) > 0
    /\ Len(machines) < MaxFrames
    /\ Current.status.tag \in Invoking
    /\ LET sub == derive(Current, Current.status.context)
       IN machines' = Append(machines,
                             IF Current.status.tag = "InvokeCreate"
                             THEN invoke_create(sub) ELSE invoke_call(sub))
    /\ last' = [op |-> "derive"]
    /\ UNCHANGED <<panicked, ninstr>>
    /\ UNCHANGED subvars
    /\ UNCHANGED tx

\* What apply_sub was given: the status of the machine and of the sub-machine,
\* the value the sub-machine was invoked with, and whether it had written to
\* the account state and to the logs or the removed list.
Applied(machine, sub) ==
    [op |-> "apply_sub",
     status |-> machine.status.tag,
     sub |-> sub.status.tag,
     value |-> sub.state.context.value,
     wrote |-> /\ sub.state.account_state # machine.state.account_state
               /\ \/ sub.state.logs # machine.state.logs
                  \/ sub.state.removed # machine.state.removed,
     out_len |-> IF machine.status.tag = "InvokeCall"
                 THEN machine.status.out_len ELSE 0]

\* apply_sub on the machine below the current one, whatever their status.
ApplySub ==
    /\ ~panicked
    /\ Len(machines) > 1
    /\ LET machine == machines[Len(machines) - 1]
           applied == apply_sub(machine, Current)
       IN /\ machines' = Append(SubSeq(machines, 1, Len(machines) - 2),
                                applied.machine)
          /\ panicked' = applied.panic
          /\ last' = Applied(machine, Current)
    /\ UNCHANGED ninstr
    /\ UNCHANGED subvars
    /\ UNCHANGED tx

\* apply_sub on the machine of the transaction when it has invoked nothing
\* (it has just been constructed or has just exited), with an exited machine.
ApplySubUninvoked ==
    /\ ~panicked
    /\ Len(machines) = 1
    /\ Current.status.tag \notin Invoking
    /\ last.op \in {"none", "exit"}
    /\ LET sub == [derive(Current, Current.state.context) EXCEPT !.status = ExitedOk]
           applied == apply_sub(Current, sub)
       IN /\ machines' = SetTop(machines, applied.machine)
          /\ panicked' = applied.panic
          /\ last' = Applied(Current, sub)
    /\ UNCHANGED ninstr
    /\ UNCHANGED subvars
    /\ UNCHANGED tx

\* code_deposit on the machine of the transaction: once it has exited, or
\* too early, when it has just been constructed or has just executed a
\* system instruction.
CodeDeposit ==
    /\ ~panicked
    /\ Len(machines) = 1
    /\ \/ Current.status.tag \in Exited /\ last.op # "code_deposit"
       \/ last.op \in {"none"} \cup InvokeOps
    /\ LET deposited == code_deposit(Current)
       IN /\ machines' = <<deposited.machine>>
          /\ panicked' = deposited.panic
    /\ last' = [op |-> "code_deposit"]
    /\ UNCHANGED ninstr
    /\ UNCHANGED subvars
    /\ UNCHANGED tx

MachNext ==
    \/ PushOperands
    \/ CallInstr
    \/ CallCodeInstr
    \/ DelegateCallInstr
    \/ CreateInstr
    \/ SuicideInstr
    \/ LogInstr
    \/ UseGas
    \/ Exit
    \/ Derive
    \/ ApplySub
    \/ ApplySubUninvoked
    \/ CodeDeposit

MachSpec == MachInit /\ [][MachNext]_vars

(***************************************************************************)
(* Properties of the machine lifecycle and of the system instructions.     *)
(***************************************************************************)
\* The stack after n operands have been popped and v pushed.
Replaced(stack, n, v) == Append(SubSeq(stack, 1, Len(stack) - n), v)

\* The number of operands each invoking instruction pops.
operands_of(op) == CASE op = "create" -> 3
                     [] op = "delegatecall" -> 6
                     [] OTHER -> 7

\* C6: when a sub-machine finishes with ExitedErr, apply_sub (apply_call and
\* apply_create) charges the parent the sub's whole context.gas_limit,
\* replaces the value on top of the parent's stack by 0, writes nothing into
\* the parent's memory, and leaves the parent's account state, logs and
\* removed list as they were before the sub ran: the parent's own writes
\* survive and the writes of the failed sub are not visible.
C6_FailedSubChargedNotApplied ==
    [][(last'.op = "apply_sub" /\ ~panicked' /\ last'.sub = "ExitedErr")
       => LET before == machines[Len(machines) - 1].state
              sub == Top(machines).state
              after == Top(machines').state
          IN /\ Len(machines') = Len(machines) - 1
             /\ after.used_gas = before.used_gas + sub.context.gas_limit
             /\ after.stack = Replaced(before.stack, 1, 0)
             /\ after.memory = before.memory
             /\ after.account_state = before.account_state
             /\ after.logs = before.logs
             /\ after.removed = before.removed]_vars

\* A failed sub-machine of a call with an output window, which had written to
\* the account state and to the logs or the removed list, has been applied.
C6_Witness ==
    /\ last.op = "apply_sub"
    /\ ~panicked
    /\ last.sub = "ExitedErr"
    /\ last.status = "InvokeCall"
    /\ last.wrote
    /\ last.out_len > 0
    /\ Current.state.stack = <<0>>

\* C7: when CALL, CALLCODE or CREATE is executed by a frame whose balance is
\* lower than the value to transfer, or CALL, CALLCODE, DELEGATECALL or CREATE
\* is executed past the call-stack limit, the instruction consumes its
\* operands, pushes 0, returns no InvokeCall/InvokeCreate control and leaves
\* account state, memory, logs and the removed list unchanged.
C7_RefusedInvokeChangesNothing ==
    [][\A op \in InvokeOps :
         (/\ last = [op |-> "push", for |-> op]
          /\ last'.op = op
          /\ \/ /\ op # "delegatecall"
                /\ balance(Current.state.account_state, Current.state.context.address)
                     < value_of(op, Current.state)
             \/ Current.state.depth > callstack_limit)
         => LET before == Current.state
                after == Top(machines').state
            IN /\ Len(machines') = Len(machines)
               /\ Top(machines').status = Running
               /\ after.stack = Replaced(before.stack, operands_of(op), 0)
               /\ after.account_state = before.account_state
               /\ after.memory = before.memory
               /\ after.logs = before.logs
               /\ after.removed = before.removed]_vars

\* A frame within the call-stack limit that had self-destructed has just been
\* refused a CALL, CALLCODE or CREATE for lack of balance.
C7_Witness ==
    /\ last.op \in {"call", "callcode", "create"}
    /\ last.refused
    /\ Current.state.depth <= callstack_limit
    /\ Current.state.removed # <<>>
    /\ Current.state.stack[Len(Current.state.stack)] = 0

\* C8: no sub-frame is ever entered at a call depth greater than 1024 (the
\* patch's callstack_limit): a frame already at depth 1024 that executes CALL,
\* CALLCODE, DELEGATECALL or CREATE gets 0 pushed and produces no sub-frame.
C8_NoFrameBeyondLimit ==
    [][/\ \A i \in 2..Len(machines') :
            machines'[i].state.depth <= callstack_limit
       /\ \A op \in InvokeOps :
            (last'.op = op /\ Current.state.depth >= callstack_limit)
            => /\ last'.refused
               /\ Top(machines').state.stack[Len(Top(machines').state.stack)] = 0]_vars

\* C9: at every boundary of the machine lifecycle used_gas never exceeds
\* context.gas_limit: after a CALL/CREATE, after apply_sub in the success
\* branch (the sub's used gas added, plus code-deposit gas for a create) and
\* in the error branch (the sub's whole gas_limit added), and after
\* code_deposit.
C9_UsedGasWithinLimit ==
    ~panicked =>
        \A i \in 1..Len(machines) :
            machines[i].state.used_gas <= machines[i].state.context.gas_limit

\* A failed sub-machine of a value-transferring call, whose gas limit held the
\* stipend, has been applied and the parent has used its whole gas limit.
C9_Witness ==
    /\ last.op = "apply_sub"
    /\ ~panicked
    /\ last.sub = "ExitedErr"
    /\ last.status = "InvokeCall"
    /\ last.value # 0
    /\ Current.state.used_gas = Current.state.context.gas_limit

\* C10: a machine whose status is InvokeCall or InvokeCreate returns to
\* Running only through apply_sub with a sub-machine that has exited;
\* apply_sub on a machine in any other status, or with a sub-machine that has
\* not exited, panics and applies nothing from the sub.
C10_RunningOnlyThroughApplySub ==
    [][/\ \A i \in 1..Len(machines) :
            (/\ machines[i].status.tag \in Invoking
             /\ i <= Len(machines')
             /\ machines'[i].status.tag = "Running"
             /\ ~panicked')
            => /\ last'.op = "apply_sub"
               /\ i = Len(machines) - 1
               /\ Len(machines') = i
               /\ Top(machines).status.tag \in Exited
       /\ (/\ last'.op = "apply_sub"
           /\ \/ last'.status \notin Invoking
              \/ last'.sub \notin Exited)
          => /\ panicked'
             /\ Top(machines').state = machines[Len(machines')].state]_vars

\* An invoking machine is Running again after apply_sub of a sub-machine that
\* exited Ok.
C10_Witness ==
    /\ last.op = "apply_sub"
    /\ ~panicked
    /\ last.status \in Invoking
    /\ last.sub = "ExitedOk"
    /\ Current.status = Running

(***************************************************************************)
(* A call transaction from initialize_call to finalize.                    *)
(***************************************************************************)
GasPrices == {1, 2}
Beneficiaries == {2, 3}

\* The machine of a call transaction of account 2 to address, as constructed:
\* the caller can afford the gas and the value.
CallTransaction(patch, address, value, gas_price) ==
    LET machine == Transaction(patch, 0)
    IN [machine EXCEPT
          !.state.context = [address |-> address, caller |-> 2, value |-> value,
                             gas_price |-> gas_price, gas_limit |-> GasLimit],
          !.state.account_state.balance =
              [a \in 1..3 |-> CASE a = 2 -> GasLimit * gas_price + value
                                [] a = 1 -> 1
                                [] OTHER -> 0]]

TxInit ==
    /\ SubStart
    /\ \E patch \in Patches, address \in {1, 2}, value \in {0, 1},
          gas_price \in GasPrices :
         LET machine == CallTransaction(patch, address, value, gas_price)
         IN /\ machines = <<machine>>
            /\ tx = [phase |-> "new",
                     fresh |-> machine.state.account_state,
                     preclaimed_value |-> GasLimit * gas_price,
                     real_used_gas |-> 0]
    /\ panicked = FALSE
    /\ ninstr = 0
    /\ last = NoEv

InitializeCall ==
    /\ tx.phase = "new"
    /\ machines' = <<initialize_call(Current, tx.preclaimed_value)>>
    /\ tx' = [tx EXCEPT !.phase = "run"]
    /\ last' = [op |-> "initialize_call"]
    /\ UNCHANGED <<panicked, ninstr>>
    /\ UNCHANGED subvars

\* The program of the transaction pushes the operands of SUICIDE or LOG.
TxPushOperands ==
    /\ CanStep
    /\ last.op # "push"
    /\ ninstr < MaxInstr
    /\ \/ \E address \in Beneficiaries :
            /\ machines' = SetTop(machines,
                                  [Current EXCEPT !.state.stack = @ \o <<address>>])
            /\ last' = [op |-> "push", for |-> "suicide"]
       \/ /\ machines' = SetTop(machines,
                                [Current EXCEPT !.state.stack = @ \o <<0, 0>>])
          /\ last' = [op |-> "push", for |-> "log"]
    /\ UNCHANGED <<panicked, ninstr, tx>>
    /\ UNCHANGED subvars

\* finalize, whatever the status of the machine, with the gas it has used or
\* with its whole gas limit as the gas really used.
Finalize ==
    /\ ~panicked
    /\ tx.phase = "run"
    /\ last.op # "push"
    /\ \E real_used_gas \in {total_used_gas(Current.state),
                             Current.state.context.gas_limit} :
         LET finalized == finalize(Current, real_used_gas, tx.preclaimed_value,
                                   tx.fresh)
         IN /\ machines' = <<finalized.machine>>
            /\ panicked' = finalized.panic
            /\ tx' = [tx EXCEPT !.phase = IF finalized.panic THEN @ ELSE "done",
                                !.real_used_gas = real_used_gas]
    /\ last' = [op |-> "finalize",
                status |-> Current.status.tag,
                wrote |-> /\ Current.state.logs # <<>>
                          /\ Current.state.removed # <<>>
                          /\ Current.state.account_state # tx.fresh]
    /\ UNCHANGED ninstr
    /\ UNCHANGED subvars

TxNext ==
    \/ InitializeCall
    \/ TxPushOperands
    \/ SuicideInstr
    \/ LogInstr
    \/ UseGas
    \/ Exit
    \/ Finalize

TxSpec == TxInit /\ [][TxNext]_vars

\* The step is a finalize that did not panic.
Finalized == tx.phase = "run" /\ tx'.phase = "done"

\* C11: when the machine has exited with an error, finalize leaves the fresh
\* account state with the caller's balance lowered by real_used_gas times
\* gas_price, and empty logs and removed lists; when it has exited Ok, the
\* account state, the logs and the removed list of the execution are kept,
\* only the caller's balance changing.
C11_FinalizeResetsOnError ==
    [][Finalized =>
         LET state == Current.state
             after == Top(machines').state
             caller == state.context.caller
             gas_dec == tx'.real_used_gas * state.context.gas_price
         IN IF Current.status.tag = "ExitedErr"
            THEN /\ after.account_state = decrease_balance(tx.fresh, caller, gas_dec)
                 /\ after.logs = <<>>
                 /\ after.removed = <<>>
            ELSE /\ Current.status.tag = "ExitedOk"
                 /\ after.logs = state.logs
                 /\ after.removed = state.removed
                 /\ after.account_state.nonce = state.account_state.nonce
                 /\ after.account_state.code = state.account_state.code
                 /\ \A a \in 1..3 : a # caller =>
                      after.account_state.balance[a] = state.account_state.balance[a]
    ]_vars

\* finalize has reset what an execution that ended with an error had written
\* to the accounts, the logs and the removed list.
C11_Witness ==
    /\ tx.phase = "done"
    /\ last = [op |-> "finalize", status |-> "ExitedErr", wrote |-> TRUE]
    /\ Current.state.logs = <<>>
    /\ Current.state.removed = <<>>

\* C12: with preclaimed_value = gas_limit * gas_price, initialize_call takes
\* the preclaimed value and the value from the caller and gives the value to
\* the address; finalize returns (gas_limit - real_used_gas) * gas_price of
\* it, so the caller has paid real_used_gas * gas_price for gas; the value
\* stays paid when the machine exited Ok and is not paid when it exited with
\* an error.
C12_CallerPaysGasUsed ==
    [][LET state == Current.state
           after == Top(machines').state
           context == state.context
           caller == context.caller
           paid == tx'.real_used_gas * context.gas_price
           returned == (context.gas_limit - tx'.real_used_gas) * context.gas_price
           moved == IF context.address = caller THEN 0 ELSE context.value
       IN /\ tx.phase = "new" /\ tx'.phase = "run" =>
               /\ tx.preclaimed_value = context.gas_limit * context.gas_price
               /\ balance(after.account_state, caller) =
                      balance(state.account_state, caller)
                          - tx.preclaimed_value - moved
               /\ context.address # caller =>
                      balance(after.account_state, context.address) =
                          balance(state.account_state, context.address)
                              + context.value
          /\ Finalized =>
               /\ paid + returned = tx.preclaimed_value
               /\ Current.status.tag = "ExitedOk" =>
                      /\ balance(after.account_state, caller) =
                             balance(state.account_state, caller) + returned
                      /\ state.removed = <<>> =>
                             balance(after.account_state, caller) =
                                 balance(tx.fresh, caller) - paid - moved
               /\ Current.status.tag = "ExitedErr" =>
                      balance(after.account_state, caller) =
                          balance(tx.fresh, caller) - paid
    ]_vars

\* A transaction of value 1 to another account has exited Ok having used
\* part of its gas, and finalize has returned the rest.
C12_Witness ==
    /\ tx.phase = "done"
    /\ last.op = "finalize"
    /\ last.status = "ExitedOk"
    /\ Current.state.context.value = 1
    /\ Current.state.context.address # Current.state.context.caller
    /\ tx.real_used_gas > 0
    /\ tx.real_used_gas < Current.state.context.gas_limit
    /\ balance(Current.state.account_state, Current.state.context.caller) =
           balance(tx.fresh, Current.state.context.caller)
               - tx.real_used_gas * Current.state.context.gas_price - 1

(***************************************************************************)
(* Properties of the sub-machines a machine invokes.                       *)
(***************************************************************************)
\* The step is system instruction op of the current machine, which invoked.
Invoked(op) ==
    /\ last = [op |-> "push", for |-> op]
    /\ last' = [op |-> op, refused |-> FALSE]

\* C13: the gas limit of the sub-machine of a CALL or CALLCODE is
\* min(requested gas, cap) plus the stipend, with cap the gas left after the
\* cost of the instruction, less one 64th of it when the patch has
\* call_create_l64_after_gas; the stipend is not zero only when the value is
\* not zero; DELEGATECALL adds no stipend; CREATE hands on cap; in every case
\* the gas limit less the stipend is at most the gas the machine has left.
C13_SubGasLimit ==
    [][\A op \in InvokeOps : Invoked(op) =>
         LET state == Current.state
             left == state.context.gas_limit
                       - (memory_gas(state) + state.used_gas + gas_cost(op, state))
             cap == IF state.patch.call_create_l64_after_gas
                    THEN left - (left \div 64) ELSE left
             requested == state.stack[Len(state.stack)]
             value == state.stack[Len(state.stack) - 2]
             capped == IF requested < cap THEN requested ELSE cap
             sub_limit == Top(machines').status.context.gas_limit
             stipend == sub_limit - capped
         IN /\ op = "create" => sub_limit = cap
            /\ op = "delegatecall" => sub_limit = capped
            /\ op \in CallOps =>
                 /\ stipend = (IF value # 0 THEN callStipend ELSE 0)
                 /\ sub_limit = capped + stipend
            /\ op # "create" => sub_limit - stipend <= left
            /\ left >= 0
    ]_vars

\* A CALL with a non-zero value that asked for more gas than is left, under
\* a patch that keeps one 64th back: the sub-machine gets the cap and the
\* stipend.
C13_Witness ==
    /\ last = [op |-> "call", refused |-> FALSE]
    /\ Current.status.tag = "InvokeCall"
    /\ Current.state.patch.call_create_l64_after_gas
    /\ Current.status.context.value # 0
    /\ Current.status.context.gas_limit > callStipend
    /\ Current.status.context.gas_limit < BigGas

\* The step is apply_sub of an Ok sub-machine on a machine that invoked a call.
AppliedCallOk ==
    /\ Len(machines) > 1
    /\ Len(machines') = Len(machines) - 1
    /\ ~panicked'
    /\ machines[Len(machines) - 1].status.tag = "InvokeCall"
    /\ Current.status.tag = "ExitedOk"

\* C14: when a sub-call exits Ok, apply_call writes the first
\* min(len(output), out_len) bytes of the output at out_start, zeros up to
\* out_start + out_len, and leaves every byte outside that window as it was.
C14_OutputCopiedIntoWindow ==
    [][AppliedCallOk =>
         LET machine == machines[Len(machines) - 1]
             before == machine.state.memory
             after == Top(machines').state.memory
             out == Current.state.out
             out_start == machine.status.out_start
             out_len == machine.status.out_len
             copied == IF Len(out) < out_len THEN Len(out) ELSE out_len
         IN \A x \in (DOMAIN before) \cup (DOMAIN after)
                       \cup (out_start..(out_start + out_len)) :
              read(after, x) =
                  IF x >= out_start /\ x < out_start + copied
                  THEN out[x - out_start + 1]
                  ELSE IF x >= out_start /\ x < out_start + out_len
                  THEN 0
                  ELSE read(before, x)
    ]_vars

\* A two-byte output has been applied to a window of three bytes of a memory
\* that held 9s: two bytes copied, one zeroed, the byte after it untouched.
C14_Witness ==
    /\ ~panicked
    /\ last.op = "apply_sub"
    /\ last.status = "InvokeCall"
    /\ last.sub = "ExitedOk"
    /\ last.out_len = 3
    /\ Current.state.memory = [x \in 0..3 |-> CASE x = 0 -> 7 [] x = 1 -> 8
                                              [] x = 2 -> 0 [] OTHER -> 9]

\* A two-byte output has been applied to a window of one byte: one byte
\* copied, the bytes around it untouched.
C14_Truncated ==
    /\ ~panicked
    /\ last.op = "apply_sub"
    /\ last.status = "InvokeCall"
    /\ last.sub = "ExitedOk"
    /\ last.out_len = 1
    /\ Current.state.memory = [x \in 0..3 |-> IF x = 1 THEN 7 ELSE 9]

(***************************************************************************)
(* The original storage a layer of the substate reports.                   *)
(***************************************************************************)
\* C15: for every address and key, known_original_storage of a frame returns
\* the same value before and after every operation of the frame and every
\* enter, commit and discard of a child.
C15_OriginalStorageStable ==
    [][\A i \in 1..Len(substate) : i <= Len(substate') =>
         \A address \in Addr, key \in Key :
            known_original_storage(substate', i, address, key) =
                known_original_storage(substate, i, address, key)
    ]_vars

(***************************************************************************)
(* Balances under SUICIDE and under the transfer of a sub-call.            *)
(***************************************************************************)
\* The step is a SUICIDE of the current machine that it could pay for.
Suicided ==
    /\ last = [op |-> "push", for |-> "suicide"]
    /\ last'.op = "suicide"

Count(seq, x) == Cardinality({i \in 1..Len(seq) : seq[i] = x})

\* C16: after a SUICIDE of the frame at address A with a beneficiary B other
\* than A, the balance of A is 0, the balance of B is what it was plus what A
\* had, and A is in the removed list exactly once, whether it was there
\* already or not.
C16_SuicideMovesBalance ==
    [][Suicided =>
         LET state == Current.state
             after == Top(machines').state
             A == state.context.address
             B == state.stack[Len(state.stack)]
         IN /\ Count(after.removed, A) = 1
            /\ B # A =>
                 /\ balance(after.account_state, A) = 0
                 /\ balance(after.account_state, B) =
                        balance(state.account_state, B)
                            + balance(state.account_state, A)
    ]_vars

\* The frame at address 1, holding 1, has executed SUICIDE twice with
\* beneficiary 2: 1 is removed once, its balance is 0 and 2 holds the 1.
C16_Witness ==
    /\ Len(machines) = 1
    /\ last.op = "suicide"
    /\ ninstr = 2
    /\ Current.state.stack = <<>>
    /\ Current.state.logs = <<>>
    /\ Current.state.context.address = 1
    /\ Current.state.removed = <<1>>
    /\ balance(Current.state.account_state, 1) = 0
    /\ balance(Current.state.account_state, 2) = 1

\* The sum of the balances of all accounts.
Total(account_state) ==
    balance(account_state, 1) + balance(account_state, 2)
        + balance(account_state, 3)

\* The step derives and invokes the sub-machine of a call.
InvokedCall ==
    /\ Len(machines') = Len(machines) + 1
    /\ Current.status.tag = "InvokeCall"

\* The transfer of a sub-call moves the value and keeps the sum of all
\* balances, whoever the caller and the target are.
InvokeCallKeepsTotal ==
    [][InvokedCall =>
         Total(Top(machines').state.account_state) =
             Total(Current.state.account_state)
    ]_vars

\* C17: the sum of all balances is the same before and after the transfer
\* of every sub-call and before and after every SUICIDE, whoever the
\* beneficiary is.
C17_BalanceSumConserved ==
    [][/\ InvokedCall =>
            Total(Top(machines').state.account_state) =
                Total(Current.state.account_state)
       /\ Suicided =>
            Total(Top(machines').state.account_state) =
                Total(Current.state.account_state)
    ]_vars

(***************************************************************************)
(* check_opcode, and the instructions it guards.                           *)
(***************************************************************************)
stack_limit == 1024

\* Stack::check_pop_push: the stack holds pop elements, and holds at most
\* stack_limit once they are gone and push others are there.
check_pop_push(stack, pop_count, push_count) ==
    IF Len(stack) < pop_count THEN "StackUnderflow"
    ELSE IF Len(stack) - pop_count + push_count > stack_limit THEN "StackOverflow"
    ELSE "Ok"

Instr(op, v) == [op |-> op, v |-> v]
Instructions ==
    {Instr(op, 0) : op \in {"call", "callcode", "delegatecall", "create",
                            "suicide", "sload", "sstore", "mstore"}}
        \cup {Instr("log", v) : v \in 0..2}
        \cup {Instr("jump", 0), Instr("jumpi", 0)}
        \cup {Instr(op, v) : op \in {"dup", "swap"}, v \in {1, 16}}

\* BlockhashState: the hashes committed so far, by block number.
Blockhash(number) == [tag |-> "Blockhash", number |-> number]
Ok(value) == [tag |-> "Ok", value |-> value]
AlreadyCommitted == [tag |-> "AlreadyCommitted"]

blockhash_require(blockhash_state, number) ==
    IF number \in DOMAIN blockhash_state THEN Ok(<<>>) ELSE Blockhash(number)

\* A commit that replaces the hash of a number committed before.
blockhash_commit_again(blockhash_state, number, hash) ==
    [result |-> Ok(<<>>), blockhash_state |-> Put(blockhash_state, number, hash)]

\* BlockhashState::commit: the result and the state it leaves.
blockhash_commit(blockhash_state, number, hash) ==
    IF number \in DOMAIN blockhash_state
    THEN [result |-> AlreadyCommitted, blockhash_state |-> blockhash_state]
    ELSE [result |-> Ok(<<>>),
          blockhash_state |-> Put(blockhash_state, number, hash)]

blockhash_get(blockhash_state, number) ==
    IF number \in DOMAIN blockhash_state THEN Ok(blockhash_state[number])
    ELSE Blockhash(number)

\* The BLOCKHASH arm of check_opcode with the window one block too long.
check_blockhash_257(state) ==
    LET current_number == state.block.number
        number == arg(state, 0)
    IN IF check_pop_push(state.stack, 1, 1) # "Ok"
       THEN [tag |-> check_pop_push(state.stack, 1, 1)]
       ELSE IF ~(number >= current_number \/ current_number - number > 257)
       THEN LET got == blockhash_get(state.blockhash_state, number)
            IN IF got.tag = "Ok" THEN Ok(<<>>) ELSE got
       ELSE Ok(<<>>)

\* The BLOCKHASH arm of check_opcode: Ok, a stack error, or the requirement
\* raised by BlockhashState::get.
check_blockhash(state) ==
    LET current_number == state.block.number
        number == arg(state, 0)
    IN IF check_pop_push(state.stack, 1, 1) # "Ok"
       THEN [tag |-> check_pop_push(state.stack, 1, 1)]
       ELSE IF ~(number >= current_number \/ current_number - number > 256)
       THEN LET got == blockhash_get(state.blockhash_state, number)
            IN IF got.tag = "Ok" THEN Ok(<<>>) ELSE got
       ELSE Ok(<<>>)

\* check_opcode with LOG(v) checked as if it took no topics.
check_opcode_log_without_topics(instruction, state) ==
    CASE instruction.op \in {"call", "callcode"} -> check_pop_push(state.stack, 7, 1)
      [] instruction.op = "delegatecall" -> check_pop_push(state.stack, 6, 1)
      [] instruction.op = "create" -> check_pop_push(state.stack, 3, 1)
      [] instruction.op = "log" -> check_pop_push(state.stack, 2, 0)
      [] instruction.op = "suicide" -> check_pop_push(state.stack, 1, 0)
      [] instruction.op = "sload" -> check_pop_push(state.stack, 1, 1)
      [] instruction.op = "sstore" -> check_pop_push(state.stack, 2, 0)
      [] instruction.op = "mstore" -> check_pop_push(state.stack, 2, 0)
      [] instruction.op = "jump" -> check_pop_push(state.stack, 1, 0)
      [] instruction.op = "jumpi" -> check_pop_push(state.stack, 2, 0)
      [] instruction.op = "dup" ->
           check_pop_push(state.stack, instruction.v, instruction.v + 1)
      [] instruction.op = "swap" ->
           check_pop_push(state.stack, instruction.v + 1, instruction.v + 1)

\* check_opcode: the stack test of each instruction (the memory ranges are
\* in range and the accounts are loaded in the states modelled). It reads
\* the state and returns a result; whether the frame is static plays no part.
check_opcode(instruction, state) ==
    CASE instruction.op \in {"call", "callcode"} -> check_pop_push(state.stack, 7, 1)
      [] instruction.op = "delegatecall" -> check_pop_push(state.stack, 6, 1)
      [] instruction.op = "create" -> check_pop_push(state.stack, 3, 1)
      [] instruction.op = "log" -> check_pop_push(state.stack, instruction.v + 2, 0)
      [] instruction.op = "suicide" -> check_pop_push(state.stack, 1, 0)
      [] instruction.op = "sload" -> check_pop_push(state.stack, 1, 1)
      [] instruction.op = "sstore" -> check_pop_push(state.stack, 2, 0)
      [] instruction.op = "mstore" -> check_pop_push(state.stack, 2, 0)
      [] instruction.op = "jump" -> check_pop_push(state.stack, 1, 0)
      [] instruction.op = "jumpi" -> check_pop_push(state.stack, 2, 0)
      [] instruction.op = "dup" ->
           check_pop_push(state.stack, instruction.v, instruction.v + 1)
      [] instruction.op = "swap" ->
           check_pop_push(state.stack, instruction.v + 1, instruction.v + 1)

Jump(dest) == [tag |-> "Jump", dest |-> dest]

\* check_opcode that hands in the destination of every JUMPI.
check_control_jumpi_always(instruction, state) ==
    IF instruction.op \in {"jump", "jumpi"} THEN Some(Jump(arg(state, 0)))
    ELSE None

\* The Option<ControlCheck> check_opcode returns with Ok, on a stack that
\* passed check_pop_push.
check_control(instruction, state) ==
    CASE instruction.op = "jump" -> Some(Jump(arg(state, 0)))
      [] instruction.op = "jumpi" ->
           IF arg(state, 1) # 0 THEN Some(Jump(arg(state, 0))) ELSE None
      [] OTHER -> None

\* The valid jump destinations of the code: the programs modelled have none
\* at the positions their stacks name.
JumpDests == {}

\* Storage of the account state.
storage_read(account_state, address, index) == account_state.storage[address][index]
storage_write(account_state, address, index, value) ==
    [account_state EXCEPT !.storage[address][index] = value]

sload(state) ==
    LET index == arg(state, 0)
        popped == pop(state, 1)
    IN push(popped, storage_read(popped.account_state, popped.context.address, index))

sstore(state) ==
    LET index == arg(state, 0)
        value == arg(state, 1)
        popped == pop(state, 2)
    IN [popped EXCEPT !.account_state =
          storage_write(@, popped.context.address, index, value)]

mstore(state) ==
    LET index == arg(state, 0)
        value == arg(state, 1)
        popped == pop(state, 2)
    IN [popped EXCEPT !.memory = Put(@, index, value)]

dup(state, v) == push(state, arg(state, v - 1))
swap(state, v) ==
    [state EXCEPT !.stack[Len(state.stack)] = arg(state, v),
                  !.stack[Len(state.stack) - v] = arg(state, 0)]

\* What the instruction takes off the stack or reads on it, and what it
\* puts there.
popped_by(instruction) ==
    CASE instruction.op \in {"call", "callcode"} -> 3 + 4
      [] instruction.op = "delegatecall" -> 2 + 4
      [] instruction.op = "create" -> 1 + 2
      [] instruction.op = "log" -> 2 + instruction.v
      [] instruction.op = "suicide" -> 1
      [] instruction.op = "sload" -> 1
      [] instruction.op = "sstore" -> 2
      [] instruction.op = "mstore" -> 2
      [] instruction.op = "jump" -> 1
      [] instruction.op = "jumpi" -> 2
      [] instruction.op = "dup" -> instruction.v
      [] instruction.op = "swap" -> instruction.v + 1

\* The instruction on a stack that holds what it takes.
run(instruction, state) ==
    LET after_gas == available_gas(state)
    IN CASE instruction.op = "call" -> call(state, 0, after_gas, FALSE).state
         [] instruction.op = "callcode" -> call(state, 0, after_gas, TRUE).state
         [] instruction.op = "delegatecall" -> delegate_call(state, after_gas).state
         [] instruction.op = "create" -> create(state, after_gas).state
         [] instruction.op = "log" -> system_log(state, instruction.v).state
         [] instruction.op = "suicide" -> suicide(state).state
         [] instruction.op = "sload" -> sload(state)
         [] instruction.op = "sstore" -> sstore(state)
         [] instruction.op = "mstore" -> mstore(state)
         [] instruction.op = "jump" -> pop(state, 1)
         [] instruction.op = "jumpi" -> pop(state, 2)
         [] instruction.op = "dup" -> dup(state, instruction.v)
         [] instruction.op = "swap" -> swap(state, instruction.v)

\* The instructions that write to storage, balances, logs or the removed
\* list, which a static frame may not execute.
Mutating(instruction, state) ==
    \/ instruction.op \in {"sstore", "create", "log", "suicide"}
    \/ instruction.op = "call" /\ Len(state.stack) >= 3 /\ arg(state, 2) # 0

StackSizes == (0..8) \cup {16, 17} \cup ((stack_limit - 2)..stack_limit)

\* The second word from the top of the stacks modelled.
Seconds == {0, 2}

\* A machine about to execute an instruction, its stack holding size words,
\* all 1 but the second from the top; the frame is static or not.
CheckInit ==
    /\ SubStart
    /\ \E patch \in Patches, size \in StackSizes, is_static \in BOOLEAN,
          second \in Seconds :
         LET machine == Transaction(patch, 0)
         IN machines = <<[machine EXCEPT
               !.state.stack = [i \in 1..size |->
                                  IF i = size - 1 THEN second ELSE 1],
               !.state.context =
                   [address |-> 1, caller |-> 2, value |-> 0, gas_price |-> 1,
                    gas_limit |-> GasLimit, is_static |-> is_static],
               !.state.account_state =
                   [balance |-> @.balance, nonce |-> @.nonce, code |-> @.code,
                    storage |-> [a \in 1..3 |-> [k \in {1} |-> 0]]]]>>
    /\ panicked = FALSE
    /\ ninstr = 0
    /\ last = NoEv
    /\ tx = NoTx

\* check_opcode on the next instruction of the machine; a destination it
\* hands in is then looked up among the valid ones.
CheckOpcode ==
    /\ last.op = "none"
    /\ \E instruction \in Instructions :
         LET checked == check_opcode(instruction, Current.state)
             control == IF checked = "Ok"
                        THEN check_control(instruction, Current.state)
                        ELSE None
         IN last' = [op |-> "check",
                     instruction |-> instruction,
                     mutating |-> Mutating(instruction, Current.state),
                     control |-> control,
                     result |-> IF control # None /\ control[1].dest \notin JumpDests
                                THEN "BadJumpDest" ELSE checked]
    /\ UNCHANGED <<machines, panicked, ninstr, tx>>
    /\ UNCHANGED subvars

\* The instruction that check_opcode let through is executed: it fails on
\* the stack when the stack does not hold what it takes or cannot hold what
\* it leaves.
RunOpcode ==
    /\ last.op = "check"
    /\ last.result = "Ok"
    /\ LET state == Current.state
           short == Len(state.stack) < popped_by(last.instruction)
           after == IF short THEN state ELSE run(last.instruction, state)
       IN /\ machines' = <<[Current EXCEPT !.state = after]>>
          /\ last' = [op |-> "run",
                      instruction |-> last.instruction,
                      mutating |-> last.mutating,
                      failed |-> short \/ Len(after.stack) > stack_limit,
                      took |-> Len(state.stack)]
    /\ ninstr' = ninstr + 1
    /\ UNCHANGED <<panicked, tx>>
    /\ UNCHANGED subvars

CheckNext == CheckOpcode \/ RunOpcode

CheckSpec == CheckInit /\ [][CheckNext]_vars

Required(instruction) ==
    CASE instruction.op \in {"call", "callcode"} -> 7
      [] instruction.op = "delegatecall" -> 6
      [] instruction.op = "create" -> 3
      [] instruction.op = "log" -> instruction.v + 2
      [] instruction.op = "suicide" -> 1
      [] instruction.op = "sload" -> 1
      [] instruction.op = "sstore" -> 2
      [] instruction.op = "mstore" -> 2
      [] instruction.op = "jump" -> 1
      [] instruction.op = "jumpi" -> 2
      [] instruction.op = "dup" -> instruction.v
      [] instruction.op = "swap" -> instruction.v + 1

\* C20: check_opcode leaves the machine as it is, and an instruction it
\* returned Ok for does not fail on the stack: the stack holds what the check
\* requires, the instruction takes no more than that, and the stack holds at
\* most 1024 elements after it.
C20_CheckSufficientForStack ==
    [][/\ last'.op = "check" => machines' = machines
       /\ last'.op = "run" =>
            LET instruction == last.instruction
                stack == Current.state.stack
                after == Top(machines').state.stack
            IN /\ ~last'.failed
               /\ Required(instruction) <= Len(stack)
               /\ popped_by(instruction) <= Required(instruction)
               /\ Len(after) >= Len(stack) - Required(instruction)
               /\ Len(after) <= stack_limit
    ]_vars

\* DUP16 was let through on a stack of 1023 elements and left 1024; LOG2 is
\* the other case, reached as C20_LogTookAll.
C20_Witness ==
    /\ last.op = "run"
    /\ last.instruction = Instr("dup", 16)
    /\ last.took = stack_limit - 1
    /\ ~last.failed
    /\ Len(Current.state.stack) = stack_limit

\* LOG2 was let through on a stack of 4 elements and took them all.
C20_LogTookAll ==
    /\ last.op = "run"
    /\ last.instruction = Instr("log", 2)
    /\ last.took = 4
    /\ Current.state.stack = <<>>
    /\ Len(Current.state.logs) = 1

(***************************************************************************)
(* CREATE onto an address that is taken.                                   *)
(***************************************************************************)
\* The code of the contract that exists before the transaction.
ExistingCode == <<5>>

\* The machine of a transaction on account 1 when the address its CREATE
\* will get holds a contract already.
CollisionInit ==
    /\ SubStart
    /\ \E patch \in Patches :
         LET machine == Transaction(patch, 0)
             address == create_address(1, 0)
         IN machines = <<[machine EXCEPT
               !.state.account_state.nonce[address] = 1,
               !.state.account_state.code[address] = ExistingCode]>>
    /\ panicked = FALSE
    /\ ninstr = 0
    /\ last = NoEv
    /\ tx = NoTx

CollisionSpec == CollisionInit /\ [][MachNext]_vars

\* The account at address has a nonce or code.
Taken(account_state, address) ==
    \/ account_state.nonce[address] # 0
    \/ account_state.code[address] # <<>>

Account(account_state, address) ==
    [balance |-> account_state.balance[address],
     nonce |-> account_state.nonce[address],
     code |-> account_state.code[address]]

\* C19: a CREATE whose address is taken fails: the sub-machine does not
\* overwrite the account there, and once it is applied the creating machine
\* has been charged the sub-machine's whole gas limit, has 0 on top of its
\* stack and still has the account as it was.
C19_CreateCollisionFails ==
    [][/\ /\ Len(machines') = Len(machines) + 1
          /\ Current.status.tag = "InvokeCreate"
          /\ Taken(Current.state.account_state, Current.status.context.address)
          => Account(Top(machines').state.account_state,
                     Current.status.context.address)
               = Account(Current.state.account_state,
                         Current.status.context.address)
       /\ /\ Len(machines) > 1
          /\ Len(machines') = Len(machines) - 1
          /\ ~panicked'
          /\ machines[Len(machines) - 1].status.tag = "InvokeCreate"
          /\ Taken(machines[Len(machines) - 1].state.account_state,
                   Current.state.context.address)
          => LET machine == machines[Len(machines) - 1]
                 after == Top(machines').state
                 address == Current.state.context.address
             IN /\ after.stack[Len(after.stack)] = 0
                /\ after.used_gas =
                       machine.state.used_gas + Current.state.context.gas_limit
                /\ Account(after.account_state, address)
                     = Account(machine.state.account_state, address)
    ]_vars

\* The second half of C19 alone: what the creating machine is left with.
CollidingCreateApplied ==
    [][/\ Len(machines) > 1
       /\ Len(machines') = Len(machines) - 1
       /\ ~panicked'
       /\ machines[Len(machines) - 1].status.tag = "InvokeCreate"
       /\ Taken(machines[Len(machines) - 1].state.account_state,
                Current.state.context.address)
       => LET machine == machines[Len(machines) - 1]
              after == Top(machines').state
          IN /\ after.stack[Len(after.stack)] = 0
             /\ after.used_gas =
                    machine.state.used_gas + Current.state.context.gas_limit
    ]_vars

\* C21: the pre-check hands in the top word of the stack as the destination
\* of every JUMP, and of a JUMPI exactly when the second word, its
\* condition, is not zero; a JUMPI whose condition is zero is let through
\* whatever its destination.
C21_JumpDestinationSubmitted ==
    LET stack == Current.state.stack
        top == stack[Len(stack)]
        condition == stack[Len(stack) - 1]
    IN last.op = "check" =>
         /\ last.instruction.op = "jump" /\ Len(stack) >= 1 =>
              last.control = Some(Jump(top))
         /\ last.instruction.op = "jumpi" /\ Len(stack) >= 2 =>
              /\ condition # 0 => last.control = Some(Jump(top))
              /\ condition = 0 => last.control = None /\ last.result = "Ok"
         /\ last.instruction.op \notin {"jump", "jumpi"} => last.control = None

\* A JUMPI whose condition is zero and whose destination is not valid has
\* passed the pre-check.
C21_Witness ==
    /\ last.op = "check"
    /\ last.instruction.op = "jumpi"
    /\ Len(Current.state.stack) = 2
    /\ Current.state.stack = <<0, 1>>
    /\ 1 \notin JumpDests
    /\ last.result = "Ok"

\* A JUMPI whose condition is not zero was rejected for its destination.
C21_Rejected ==
    /\ last.op = "check"
    /\ last.instruction.op = "jumpi"
    /\ Current.state.stack = <<2, 1>>
    /\ last.control = Some(Jump(1))
    /\ last.result = "BadJumpDest"

(***************************************************************************)
(* The block hashes of a machine.                                          *)
(***************************************************************************)
BlockNumbers == {2, 258}
Numbers == {0, 1, 2, 257, 258, 259}
Hashes == {1, 2}

\* A machine in block number, no block hash committed yet.
BlockhashInit ==
    /\ SubStart
    /\ \E number \in BlockNumbers :
         LET machine == Transaction(EIP150, 0)
         IN machines = <<[status |-> machine.status,
                          state |-> [f \in DOMAIN machine.state \cup {"block"} |->
                                       IF f = "block" THEN [number |-> number]
                                       ELSE machine.state[f]]]>>
    /\ panicked = FALSE
    /\ ninstr = 0
    /\ last = NoEv
    /\ tx = NoTx

\* The client commits a block hash to the machine, which holds at most
\* MaxHashes of them.
CommitBlockhash ==
    /\ \E number \in Numbers, hash \in Hashes :
         LET committed == blockhash_commit(Current.state.blockhash_state,
                                           number, hash)
         IN /\ Cardinality(DOMAIN committed.blockhash_state) <= MaxHashes
            /\ machines' = <<[Current EXCEPT !.state.blockhash_state =
                                committed.blockhash_state]>>
            /\ last' = [op |-> "commit_blockhash", number |-> number,
                        hash |-> hash, result |-> committed.result]
    /\ UNCHANGED <<panicked, ninstr, tx>>
    /\ UNCHANGED subvars

GetBlockhash ==
    /\ \E number \in Numbers :
         last' = [op |-> "get", number |-> number,
                  result |-> blockhash_get(Current.state.blockhash_state, number)]
    /\ UNCHANGED <<machines, panicked, ninstr, tx>>
    /\ UNCHANGED subvars

RequireBlockhash ==
    /\ \E number \in Numbers :
         last' = [op |-> "require", number |-> number,
                  result |-> blockhash_require(Current.state.blockhash_state,
                                               number)]
    /\ UNCHANGED <<machines, panicked, ninstr, tx>>
    /\ UNCHANGED subvars

\* The pre-check of BLOCKHASH with number on top of the stack.
CheckBlockhash ==
    /\ \E number \in Numbers :
         /\ machines' = <<[Current EXCEPT !.state.stack = <<number>>]>>
         /\ last' = [op |-> "check_blockhash", number |-> number,
                     result |-> check_blockhash(Top(machines').state)]
    /\ UNCHANGED <<panicked, ninstr, tx>>
    /\ UNCHANGED subvars

BlockhashNext ==
    \/ CommitBlockhash
    \/ GetBlockhash
    \/ RequireBlockhash
    \/ CheckBlockhash

BlockhashSpec == BlockhashInit /\ [][BlockhashNext]_vars

\* C22: in block N the pre-check of BLOCKHASH on number n asks the block
\* hashes for n, and raises the requirement Blockhash(n) when they do not
\* hold it, exactly when N - 256 <= n <= N - 1; for every other n it returns
\* Ok whatever the block hashes hold.
C22_BlockhashWindow ==
    last.op = "check_blockhash" =>
        LET N == Current.state.block.number
            n == last.number
            held == n \in DOMAIN Current.state.blockhash_state
        IN IF N - 256 <= n /\ n <= N - 1
           THEN last.result = (IF held THEN Ok(<<>>) ELSE Blockhash(n))
           ELSE last.result = Ok(<<>>)

\* In block 258 the pre-check has raised the requirement for block 2, the
\* oldest of the window, no hash being held.
C22_Witness ==
    /\ last.op = "check_blockhash"
    /\ Current.state.block.number = 258
    /\ last.number = 2
    /\ last.result = Blockhash(2)

\* In block 258 the pre-check has let block 1 through, just outside the
\* window, no hash being held for it.
C22_Outside ==
    /\ last.op = "check_blockhash"
    /\ Current.state.block.number = 258
    /\ last.number = 1
    /\ 1 \notin DOMAIN Current.state.blockhash_state
    /\ last.result = Ok(<<>>)

\* C23: a block hash once committed stays: no step changes or removes a
\* stored hash; a commit for a number that has a hash returns
\* AlreadyCommitted and changes nothing, a commit for another number stores
\* the hash; get returns the stored hash and require returns Ok for every
\* number that has one.
C23_BlockhashImmutable ==
    [][LET before == Current.state.blockhash_state
           after == Top(machines').state.blockhash_state
       IN /\ \A n \in DOMAIN before : n \in DOMAIN after /\ after[n] = before[n]
          /\ last'.op = "commit_blockhash" =>
               IF last'.number \in DOMAIN before
               THEN last'.result = AlreadyCommitted /\ after = before
               ELSE /\ last'.result = Ok(<<>>)
                    /\ after[last'.number] = last'.hash
                    /\ DOMAIN after = DOMAIN before \cup {last'.number}
          /\ last'.op = "get" /\ last'.number \in DOMAIN before =>
               last'.result = Ok(before[last'.number]) /\ after = before
          /\ last'.op = "require" /\ last'.number \in DOMAIN before =>
               last'.result = Ok(<<>>) /\ after = before
    ]_vars

\* A second commit for block 1, with another hash, was refused and the
\* first hash is still there.
C23_Witness ==
    /\ last.op = "commit_blockhash"
    /\ last.number = 1
    /\ last.hash = 2
    /\ last.result = AlreadyCommitted
    /\ Current.state.blockhash_state[1] = 1

(***************************************************************************)
(* Stateful::call: fire the machine until it requires nothing more.        *)
(***************************************************************************)
\* RequireError
RequireAccount(address) == [tag |-> "Account", address |-> address]
RequireAccountCode(address) == [tag |-> "AccountCode", address |-> address]
RequireAccountStorage(address, index) ==
    [tag |-> "AccountStorage", address |-> address, index |-> index]

\* AccountCommitment, and the block hash handed to commit_blockhash
Full(address) == [tag |-> "Full", address |-> address]
Code(address) == [tag |-> "Code", address |-> address]
Storage(address, index) == [tag |-> "Storage", address |-> address, index |-> index]
Nonexist(address) == [tag |-> "Nonexist", address |-> address]
BlockhashAt(number, index) ==
    [tag |-> "Blockhash", number |-> number, index |-> index]

\* The accounts of the state trie.
StateTrie == {1}

\* What a transaction in block number may require: the accounts 1 and 2,
\* their code and storage, the newest and the oldest block hash of the
\* window of BLOCKHASH.
Requirements(number) ==
    {RequireAccount(a) : a \in {1, 2}}
        \cup {RequireAccountCode(a) : a \in {1, 2}}
        \cup {RequireAccountStorage(a, 0) : a \in {1, 2}}
        \cup {Blockhash(number - 1), Blockhash(number - Min(number, 256))}

\* The machine requires nothing more for required once commitment is made.
Provides(commitment, required) ==
    CASE required.tag = "Blockhash" ->
           commitment.tag = "Blockhash" /\ commitment.number = required.number
      [] commitment.tag = "Blockhash" -> FALSE
      [] commitment.address # required.address -> FALSE
      [] commitment.tag = "Nonexist" -> TRUE
      [] required.tag = "Account" -> commitment.tag = "Full"
      [] required.tag = "AccountCode" -> commitment.tag \in {"Full", "Code"}
      [] required.tag = "AccountStorage" ->
           commitment.tag = "Storage" /\ commitment.index = required.index

Provided(commits, required) ==
    \E i \in 1..Len(commits) : Provides(commits[i], required)

\* The commitment Stateful::call makes for an account requirement.
account_commitment(required, state_trie) ==
    IF required.address \notin state_trie THEN Nonexist(required.address)
    ELSE CASE required.tag = "Account" -> Full(required.address)
           [] required.tag = "AccountCode" -> Code(required.address)
           [] required.tag = "AccountStorage" ->
                Storage(required.address, required.index)

\* The place of the hash of block number in most_recent_block_hashes.
blockhash_index(block_number, number) == block_number - number

\* The call begins: the transaction will require some of Requirements, and
\* most_recent_block_hashes is as long as the assertion wants, or longer.
StatefulInit ==
    /\ SubStart
    /\ machines = <<>>
    /\ panicked = FALSE
    /\ ninstr = 0
    /\ last = NoEv
    /\ \E number \in BlockNumbers, extra \in {0, 1} :
       \E needs \in SUBSET Requirements(number) :
         /\ Cardinality(needs) <= MaxNeeds
         /\ tx = [phase |-> "fire",
                  number |-> number,
                  hashes |-> Min(number, 256) + extra,
                  needs |-> needs,
                  commits |-> <<>>,
                  pending |-> None,
                  since |-> 0,
                  fires |-> 0]

\* vm.fire(): Ok when everything required has been committed, else the
\* RequireError of something that has not.
Fire ==
    /\ tx.phase = "fire"
    /\ LET missing == {r \in tx.needs : ~Provided(tx.commits, r)}
       IN IF missing = {}
          THEN /\ tx' = [tx EXCEPT !.phase = "returned", !.pending = None,
                                   !.since = 0, !.fires = @ + 1]
               /\ last' = [op |-> "fire", result |-> "Ok", since |-> tx.since,
                           fires |-> tx.fires]
          ELSE \E required \in missing :
                 /\ tx' = [tx EXCEPT !.phase = "commit",
                                     !.pending = Some(required),
                                     !.since = 0, !.fires = @ + 1]
                 /\ last' = [op |-> "fire", result |-> "Err", since |-> tx.since,
                             fires |-> tx.fires]
    /\ UNCHANGED <<machines, panicked, ninstr>>
    /\ UNCHANGED subvars

\* The arms for RequireError::Account, AccountCode and AccountStorage.
CommitAccount ==
    /\ tx.phase = "commit"
    /\ tx.pending[1].tag # "Blockhash"
    /\ LET commitment == account_commitment(tx.pending[1], StateTrie)
       IN /\ tx' = [tx EXCEPT !.phase = "fire",
                              !.commits = Append(@, commitment),
                              !.since = @ + 1]
          /\ last' = [op |-> "commit_account", commitment |-> commitment]
    /\ UNCHANGED <<machines, panicked, ninstr>>
    /\ UNCHANGED subvars

\* The arm for RequireError::Blockhash: indexing most_recent_block_hashes
\* beyond its end aborts the call.
CommitRequiredBlockhash ==
    /\ tx.phase = "commit"
    /\ tx.pending[1].tag = "Blockhash"
    /\ LET number == tx.pending[1].number
           index == blockhash_index(tx.number, number)
       IN IF index >= tx.hashes \/ index < 0
          THEN /\ tx' = [tx EXCEPT !.phase = "panicked"]
               /\ last' = [op |-> "index_out_of_bounds", index |-> index]
          ELSE /\ tx' = [tx EXCEPT !.phase = "fire",
                                   !.commits = Append(@, BlockhashAt(number, index)),
                                   !.since = @ + 1]
               /\ last' = [op |-> "commit_blockhash",
                           commitment |-> BlockhashAt(number, index)]
    /\ UNCHANGED <<machines, panicked, ninstr>>
    /\ UNCHANGED subvars

StatefulNext ==
    \/ Fire
    \/ CommitAccount
    \/ CommitRequiredBlockhash

StatefulSpec == StatefulInit /\ [][StatefulNext]_vars

\* Between two calls of fire exactly one commit is made, for what the
\* RequireError named, Nonexist for an account that the trie does not hold;
\* the call returns only on Ok.
OneCommit ==
    /\ last'.op = "fire" /\ tx.fires > 0 =>
         /\ tx.since = 1
         /\ Provides(tx.commits[Len(tx.commits)], tx.pending[1])
    /\ last'.op = "commit_account" =>
         /\ last'.commitment.address = tx.pending[1].address
         /\ tx.pending[1].address \notin StateTrie =>
              last'.commitment = Nonexist(tx.pending[1].address)
    /\ last'.op = "commit_blockhash" =>
         last'.commitment.number = tx.pending[1].number
    /\ tx'.phase = "returned" => last'.op = "fire" /\ last'.result = "Ok"

OneCommitPerRequire == [][OneCommit]_vars

\* C24: each RequireError that fire returns is answered by one commit, for
\* the address or block number it names, Nonexist for an account that the
\* trie does not hold, and then fire is called again; the call returns only
\* when fire has returned Ok.
C24_FireRetriedUntilOk ==
    [][/\ OneCommit
       /\ tx.phase = "commit" =>
            /\ tx'.phase = "fire"
            /\ Len(tx'.commits) = Len(tx.commits) + 1
    ]_vars
(***************************************************************************)
(* Leaving a layer of the substate stack.                                  *)
(***************************************************************************)
\* The step is a commit (merged, or refused by the metadata) or a discard.
Exits == ev'.op \in {"commit", "commit_err", "discard"}

\* C25: a layer of the substate stack is removed only by a commit or a
\* discard, and each of them removes exactly the current layer: the depth
\* falls by exactly one and the layers below the parent are left as they
\* were; commit or discard on the root layer panics: it returns no value,
\* leaves the root as it was, and nothing runs after it.
C25_ExitLowersDepthByOne ==
    [][/\ ~aborted
       /\ Exits =>
            /\ Cur > 1
            /\ Len(substate') = Cur - 1
            /\ SubSeq(substate', 1, Cur - 2) = SubSeq(substate, 1, Cur - 2)
            /\ ~aborted'
       /\ Len(substate') < Cur => Exits
       /\ aborted' <=> ev'.op = "panic"
       /\ ev'.op = "panic" => Cur = 1 /\ substate' = substate
    ]_vars

\* commit or discard has been called on a root layer that holds what a
\* committed child had written.
C25_Witness ==
    /\ ev.op = "panic"
    /\ aborted
    /\ Len(substate) = 1
    /\ DOMAIN Top(wrote) # {}

\* The innermost of three layers has just been discarded.
C25_Discarded ==
    /\ ev.op = "discard"
    /\ Len(substate) = 2
(***************************************************************************)
(* The lifecycle of the machine of a transaction: initialize_call or        *)
(* initialize_create, steps, then code_deposit for a contract creation and  *)
(* finalize. The caller of the lifecycle follows the order its              *)
(* documentation gives once the machine has exited; before that it may call *)
(* code_deposit or finalize too early.                                      *)
(***************************************************************************)
Kinds == {"call", "create"}

LifecycleInit ==
    /\ SubStart
    /\ \E patch \in Patches, kind \in Kinds, value \in {0, 1} :
         LET machine == CallTransaction(patch,
                                        IF kind = "call" THEN 1 ELSE create_address(2, 0),
                                        value, 1)
         IN /\ machines = <<machine>>
            /\ tx = [phase |-> "new",
                     kind |-> kind,
                     deposited |-> FALSE,
                     fresh |-> machine.state.account_state,
                     preclaimed_value |-> GasLimit,
                     real_used_gas |-> 0]
    /\ panicked = FALSE
    /\ ninstr = 0
    /\ last = NoEv

Initialize ==
    /\ tx.phase = "new"
    /\ machines' = <<IF tx.kind = "call"
                     THEN initialize_call(Current, tx.preclaimed_value)
                     ELSE initialize_create(Current, tx.preclaimed_value)>>
    /\ tx' = [tx EXCEPT !.phase = "run"]
    /\ last' = [op |-> "initialize"]
    /\ UNCHANGED <<panicked, ninstr>>
    /\ UNCHANGED subvars

\* code_deposit on the machine of a contract creation, in any status.
LifecycleCodeDeposit ==
    /\ ~panicked
    /\ tx.phase = "run"
    /\ tx.kind = "create"
    /\ ~tx.deposited
    /\ last.op # "push"
    /\ LET deposited == code_deposit(Current)
       IN /\ machines' = <<deposited.machine>>
          /\ panicked' = deposited.panic
          /\ tx' = [tx EXCEPT !.deposited = ~deposited.panic]
    /\ last' = [op |-> "code_deposit"]
    /\ UNCHANGED ninstr
    /\ UNCHANGED subvars

\* finalize in any status; on an exited machine of a contract creation it is
\* called once code_deposit has been.
LifecycleFinalize ==
    /\ tx.kind = "create" /\ Current.status.tag \in Exited => tx.deposited
    /\ Finalize

LifecycleNext ==
    \/ Initialize
    \/ PushOperands
    \/ CallInstr
    \/ CreateInstr
    \/ UseGas
    \/ Exit
    \/ LifecycleCodeDeposit
    \/ LifecycleFinalize

LifecycleSpec == LifecycleInit /\ [][LifecycleNext]_vars

\* The step is a call of code_deposit or of finalize.
LifecycleCall == last'.op \in {"code_deposit", "finalize"}

C26_Deposited ==
    /\ tx.phase = "done"
    /\ tx.kind = "create"
    /\ tx.deposited
    /\ Current.state.account_state.code[create_address(2, 0)] # <<>>

\* finalize has been called on a machine that was still running.
C26_FinalizedRunning ==
    /\ last.op = "finalize"
    /\ panicked
    /\ Current.status.tag = "Running"
(***************************************************************************)
(* Precompiled contracts.                                                  *)
(***************************************************************************)
Contracts == {"ID", "RIP160", "SHA256", "ECREC"}

\* The lengths of the input data, around the multiples of 32.
Lens == {0, 1, 31, 32, 33, 63, 64, 65}

\* The gas limits, around the costs of the contracts on these lengths.
GasLimits ==
    {0, 14, 15, 16, 17, 18, 19, 20, 21, 22, 24, 59, 60, 71, 72, 73, 83, 84,
     85, 96, 599, 600, 719, 720, 721, 839, 840, 841, 960, 2999, 3000, 3001}

\* Input data of length len: all bytes b, or the bytes 1, 2, 3, ...
Datas ==
    {[i \in 1..len |-> b] : len \in Lens, b \in {0, 255}}
        \cup {[i \in 1..len |-> i] : len \in Lens}

gas_div_ceil(a, b) ==
    IF a % b = 0 THEN a \div b ELSE a \div b + 1

\* Precompiled::gas of the four contracts.
precompiled_gas(contract, data) ==
    CASE contract = "ID" -> 15 + 3 * gas_div_ceil(Len(data), 32)
      [] contract = "RIP160" -> 600 + 120 * gas_div_ceil(Len(data), 32)
      [] contract = "SHA256" -> 60 + 12 * gas_div_ceil(Len(data), 32)
      [] contract = "ECREC" -> 3000

\* The digest of data under hash function name, of len bytes: the functions
\* themselves are not modelled.
Digest(name, data, len) == [hash |-> name, of |-> data, len |-> len]

\* Precompiled::step of the four contracts: ID copies its input, RIP160 puts
\* 12 zero bytes before the 20 of the digest, SHA256 returns the 32 bytes of
\* the digest, ECREC recovers from the first 128 bytes of the input, zero
\* padded, and returns 32 bytes or, on error, nothing.
precompiled_step(contract, data) ==
    CASE contract = "ID" -> data
      [] contract = "RIP160" -> [zeros |-> 12, digest |-> Digest("ripemd160", data, 20)]
      [] contract = "SHA256" -> [zeros |-> 0, digest |-> Digest("sha256", data, 32)]
      [] contract = "ECREC" ->
           [recovered_from |->
              [i \in 1..128 |-> IF i <= Len(data) THEN data[i] ELSE 0]]

\* gas_and_step that also refuses a cost equal to the limit.
gas_and_step_below_limit(contract, data, gas_limit) ==
    LET gas == precompiled_gas(contract, data)
    IN IF gas >= gas_limit
       THEN [tag |-> "Err", error |-> "EmptyGas"]
       ELSE [tag |-> "Ok", gas |-> gas, out |-> precompiled_step(contract, data)]

\* Precompiled::gas_and_step.
gas_and_step(contract, data, gas_limit) ==
    LET gas == precompiled_gas(contract, data)
    IN IF gas > gas_limit
       THEN [tag |-> "Err", error |-> "EmptyGas"]
       ELSE [tag |-> "Ok", gas |-> gas, out |-> precompiled_step(contract, data)]

PrecompiledInit ==
    /\ SubStart
    /\ machines = <<>>
    /\ panicked = FALSE
    /\ ninstr = 0
    /\ last = NoEv
    /\ \E contract \in Contracts, data \in Datas, gas_limit \in GasLimits :
         tx = [phase |-> "called", contract |-> contract, data |-> data,
               gas_limit |-> gas_limit]

GasAndStep ==
    /\ tx.phase = "called"
    /\ last' = [op |-> "gas_and_step",
                result |-> gas_and_step(tx.contract, tx.data, tx.gas_limit)]
    /\ tx' = [tx EXCEPT !.phase = "returned"]
    /\ UNCHANGED <<machines, panicked, ninstr>>
    /\ UNCHANGED subvars

PrecompiledNext == GasAndStep

PrecompiledSpec == PrecompiledInit /\ [][PrecompiledNext]_vars

\* The least n with n * b >= a.
Ceiling(a, b) == CHOOSE n \in 0..a : n * b >= a /\ \A m \in 0..(n - 1) : m * b < a

\* The cost of a contract on len bytes of input, as the formulas give it.
Formula(contract, len) ==
    CASE contract = "ID" -> 15 + 3 * Ceiling(len, 32)
      [] contract = "SHA256" -> 60 + 12 * Ceiling(len, 32)
      [] contract = "RIP160" -> 600 + 120 * Ceiling(len, 32)
      [] contract = "ECREC" -> 3000

\* C27: gas_and_step returns Err(EmptyGas), and no output, exactly when the
\* formula of the contract exceeds gas_limit (a cost equal to the limit
\* succeeds); otherwise it returns the formula's gas, which never exceeds
\* gas_limit, with the output of the contract; the formulas are ID
\* 15 + 3 ceil(len/32), SHA256 60 + 12 ceil(len/32), RIPEMD160
\* 600 + 120 ceil(len/32), ECREC 3000; gas_div_ceil(len, 32) is the exact
\* ceiling; the output of ID is its input.
C27_PrecompiledGasAndStep ==
    last.op = "gas_and_step" =>
        LET cost == Formula(tx.contract, Len(tx.data))
        IN /\ gas_div_ceil(Len(tx.data), 32) = Ceiling(Len(tx.data), 32)
           /\ last.result.tag = "Err" <=> cost > tx.gas_limit
           /\ last.result.tag = "Err" =>
                last.result = [tag |-> "Err", error |-> "EmptyGas"]
           /\ last.result.tag = "Ok" =>
                /\ last.result.gas = cost
                /\ last.result.gas <= tx.gas_limit
                /\ last.result.out = precompiled_step(tx.contract, tx.data)
                /\ tx.contract = "ID" => last.result.out = tx.data

\* ID has run on 33 bytes with a gas limit equal to its cost, 21.
C27_Witness ==
    /\ last.op = "gas_and_step"
    /\ tx.contract = "ID"
    /\ Len(tx.data) = 33
    /\ tx.gas_limit = 21
    /\ last.result.tag = "Ok"
    /\ last.result.out = tx.data

\* SHA256 was refused on 64 bytes with one gas less than its cost, 84.
C27_Refused ==
    /\ last.op = "gas_and_step"
    /\ tx.contract = "SHA256"
    /\ Len(tx.data) = 64
    /\ tx.gas_limit = 83
    /\ last.result.tag = "Err"
(***************************************************************************)
(* U256: a word of NLimbs limbs of LimbBits bits. From<u64> puts the low    *)
(* limb last, so limb 0 is the most significant one.                        *)
(***************************************************************************)
NLimbs == 8
LimbModulus == 2 ^ LimbBits
WordBits == NLimbs * LimbBits
Modulus == 2 ^ WordBits
HalfModulus == 2 ^ (WordBits \div 2)

\* The builds of the code: overflow checks of the primitive integers are on
\* (the overflow panics) or off (it wraps).
Builds == {"debug", "release"}

\* A panic of the operation.
Aborted == [tag |-> "Panic"]

\* The limbs of number v, and the number of limbs arr.
ToLimbs(v) ==
    [k \in 0..(NLimbs - 1) |-> (v \div 2 ^ (LimbBits * (NLimbs - 1 - k))) % LimbModulus]

RECURSIVE ValueFrom(_, _)
ValueFrom(arr, k) ==
    IF k = NLimbs THEN 0
    ELSE arr[k] * 2 ^ (LimbBits * (NLimbs - 1 - k)) + ValueFrom(arr, k + 1)

ToValue(arr) == ValueFrom(arr, 0)

\* add2: the sum of two words in place, and the carry out of it.
add2(a, b) == [value |-> (a + b) % Modulus, carry |-> (a + b) \div Modulus]

\* sub2_sign and from_signed: the difference of two words in place, and its
\* sign.
sub2_sign(a, b) ==
    [value |-> (a - b + Modulus) % Modulus,
     sign |-> IF a < b THEN "Minus" ELSE IF a = b THEN "NoSign" ELSE "Plus"]

\* mac3 over the limbs of b: the product of two words, and whether anything
\* was carried out of the word. The product is built from half words.
mac3(a, b) ==
    LET ah == a \div HalfModulus
        al == a % HalfModulus
        bh == b \div HalfModulus
        bl == b % HalfModulus
        cross == ah * bl + al * bh
        low == (cross % HalfModulus) * HalfModulus + al * bl
    IN [value |-> low % Modulus,
        carry |-> IF ah * bh > 0 \/ cross \div HalfModulus > 0 \/ low >= Modulus
                  THEN 1 ELSE 0]

overflowing_add(a, b) ==
    LET sum == add2(a, b) IN [value |-> sum.value, flag |-> sum.carry > 0]

underflowing_sub(a, b) ==
    LET difference == sub2_sign(a, b)
    IN [value |-> difference.value, flag |-> difference.sign = "Minus"]

overflowing_mul(a, b) ==
    LET product == mac3(a, b) IN [value |-> product.value, flag |-> product.carry > 0]

\* impl Add, Sub, Mul: assert!(!v) on the overflowing operation.
checked(result) == IF result.flag THEN Aborted ELSE Ok(result.value)

u256_add(a, b) == checked(overflowing_add(a, b))
u256_sub(a, b) == checked(underflowing_sub(a, b))
u256_mul(a, b) == checked(overflowing_mul(a, b))

RECURSIVE bit_length(_)
bit_length(x) == IF x = 0 THEN 0 ELSE 1 + bit_length(x \div 2)

\* leading_zeros of a limb.
leading_zeros(x) == LimbBits - bit_length(x)

\* U256::bits: 0x40 is two limbs of 32 bits.
bits(arr) ==
    IF arr[1] > 0 THEN 2 * LimbBits * 2 - leading_zeros(arr[1])
    ELSE IF arr[2] > 0 THEN 2 * LimbBits * 3 - leading_zeros(arr[2])
    ELSE IF arr[3] > 0 THEN 2 * LimbBits * 4 - leading_zeros(arr[3])
    ELSE 2 * LimbBits - leading_zeros(arr[0])

\* Ord::cmp: the loop compares limb 0 and then decrements its index i = 0,
\* which panics where overflow is checked and otherwise wraps to a value
\* that ends the loop.
cmp(me, you, build) ==
    IF me[0] < you[0] THEN "Less"
    ELSE IF me[0] > you[0] THEN "Greater"
    ELSE IF build = "debug" THEN "Panic"
    ELSE "Equal"

\* Shl<usize>.
shl(original, shift) ==
    LET word_shift == shift \div LimbBits
        bit_shift == shift % LimbBits
    IN [k \in 0..(NLimbs - 1) |->
          (IF k - word_shift >= 0
           THEN (original[k - word_shift] * 2 ^ bit_shift) % LimbModulus
           ELSE 0)
          + (IF bit_shift > 0 /\ k - word_shift - 1 >= 0
             THEN original[k - word_shift - 1] \div 2 ^ (LimbBits - bit_shift)
             ELSE 0)]

\* Shr<usize>.
shr(original, shift) ==
    LET word_shift == shift \div LimbBits
        bit_shift == shift % LimbBits
    IN [k \in 0..(NLimbs - 1) |->
          IF k + word_shift > NLimbs - 1 THEN 0
          ELSE (original[k + word_shift] \div 2 ^ bit_shift)
               + (IF bit_shift > 0 /\ k + word_shift < NLimbs - 1
                  THEN (original[k + word_shift + 1] * 2 ^ (LimbBits - bit_shift))
                           % LimbModulus
                  ELSE 0)]

\* The loop of the bitwise long division.
RECURSIVE long_division(_, _, _, _, _)
long_division(sub_copy, shift_copy, ret, shift, build) ==
    LET order == cmp(sub_copy, shift_copy, build)
        subtracted == u256_sub(ToValue(sub_copy), ToValue(shift_copy))
        set == [ret EXCEPT ![shift \div LimbBits] = @ + 2 ^ (shift % LimbBits)]
    IN IF order = "Panic" THEN Aborted
       ELSE IF order = "Less"
       THEN IF shift = 0 THEN Ok(ToValue(ret))
            ELSE long_division(sub_copy, shr(shift_copy, 1), ret, shift - 1, build)
       ELSE IF subtracted = Aborted THEN Aborted
       ELSE IF shift = 0 THEN Ok(ToValue(set))
       ELSE long_division(ToLimbs(subtracted.value), shr(shift_copy, 1), set,
                          shift - 1, build)

\* impl Div for U256.
u256_div(a, b, build) ==
    LET my_bits == bits(ToLimbs(a))
        your_bits == bits(ToLimbs(b))
    IN IF your_bits = 0 THEN Aborted
       ELSE IF my_bits < your_bits THEN Ok(0)
       ELSE long_division(ToLimbs(a), shl(ToLimbs(b), my_bits - your_bits),
                          ToLimbs(0), my_bits - your_bits, build)

\* impl Rem for U256.
u256_rem(a, b, build) ==
    LET d == u256_div(a, b, build)
        product == IF d = Aborted THEN Aborted ELSE u256_mul(b, d.value)
    IN IF product = Aborted THEN Aborted ELSE u256_sub(a, product.value)

\* The words the operations are applied to: small ones, a word with its
\* most significant limb set, and those around half of the modulus and the
\* modulus.
Words ==
    {0, 1, 2, 3, HalfModulus, 2 ^ (WordBits - LimbBits), Modulus - 2, Modulus - 1}

ArithInit ==
    /\ SubStart
    /\ machines = <<>>
    /\ panicked = FALSE
    /\ ninstr = 0
    /\ last = NoEv
    /\ \E a \in Words, b \in Words, build \in Builds :
         tx = [phase |-> "operands", a |-> a, b |-> b, build |-> build]

\* The operation op has returned result.
Computed(op, result) ==
    /\ tx.phase = "operands"
    /\ last' = [op |-> op, result |-> result]
    /\ tx' = [tx EXCEPT !.phase = "computed"]
    /\ UNCHANGED <<machines, panicked, ninstr>>
    /\ UNCHANGED subvars

OverflowingAdd == TRUE /\ Computed("overflowing_add", overflowing_add(tx.a, tx.b))
UnderflowingSub == TRUE /\ Computed("underflowing_sub", underflowing_sub(tx.a, tx.b))
OverflowingMul == TRUE /\ Computed("overflowing_mul", overflowing_mul(tx.a, tx.b))
U256Add == TRUE /\ Computed("add", u256_add(tx.a, tx.b))
U256Sub == TRUE /\ Computed("sub", u256_sub(tx.a, tx.b))
U256Mul == TRUE /\ Computed("mul", u256_mul(tx.a, tx.b))
U256Div == TRUE /\ Computed("div", u256_div(tx.a, tx.b, tx.build))
U256Rem == TRUE /\ Computed("rem", u256_rem(tx.a, tx.b, tx.build))

\* a.cmp(&b), as <, > and >= call it.
Ordering(a, b, build) ==
    LET ordering == cmp(ToLimbs(a), ToLimbs(b), build)
    IN IF ordering = "Panic" THEN Aborted ELSE Ok(ordering)
Cmp == TRUE /\ Computed("cmp", Ordering(tx.a, tx.b, tx.build))

ArithNext ==
    \/ OverflowingAdd
    \/ UnderflowingSub
    \/ OverflowingMul
    \/ U256Add
    \/ U256Sub
    \/ U256Mul
    \/ U256Div
    \/ U256Rem
    \/ Cmp

ArithSpec == ArithInit /\ [][ArithNext]_vars

\* C28: for every word a, a / 0 and a % 0 return zero and do not abort.
C28_DivisionByZeroIsZero ==
    last.op \in {"div", "rem"} /\ tx.b = 0 => last.result = Ok(0)

\* Division by zero returns a word that is not zero, whatever the build.
C28_DivisionByZeroNotZero ==
    last.op = "div" /\ tx.b = 0 =>
        \/ last.result = Aborted
        \/ last.result.tag = "Ok" /\ last.result.value # 0

\* C29: for all words a and b, a + b, a - b and a * b return the
\* mathematical result reduced modulo the modulus of the word and never
\* abort; overflowing_add returns the reduced sum and whether the sum reached
\* the modulus, underflowing_sub the reduced difference and whether a < b.
C29_ArithmeticWraps ==
    /\ last.op = "add" => last.result = Ok((tx.a + tx.b) % Modulus)
    /\ last.op = "sub" => last.result = Ok((tx.a - tx.b + Modulus) % Modulus)
    /\ last.op = "mul" => last.result.tag = "Ok"
    /\ last.op = "overflowing_add" =>
         last.result = [value |-> (tx.a + tx.b) % Modulus,
                        flag |-> tx.a + tx.b >= Modulus]
    /\ last.op = "underflowing_sub" =>
         last.result = [value |-> (tx.a - tx.b + Modulus) % Modulus,
                        flag |-> tx.a < tx.b]

\* Addition, subtraction and multiplication abort exactly when the result
\* leaves the range of the word, and else return it.
C29_ArithmeticAsserts ==
    /\ last.op = "add" =>
         last.result = IF tx.a + tx.b >= Modulus THEN Aborted ELSE Ok(tx.a + tx.b)
    /\ last.op = "sub" =>
         last.result = IF tx.a < tx.b THEN Aborted ELSE Ok(tx.a - tx.b)
    /\ last.op = "mul" /\ tx.a < HalfModulus /\ tx.b < HalfModulus =>
         last.result = Ok(tx.a * tx.b)
    /\ last.op = "mul" /\ tx.a >= HalfModulus /\ tx.b >= HalfModulus =>
         last.result = Aborted
(***************************************************************************)
(* What a frame read of the storage, and what its parent reads once the     *)
(* frame has been committed.                                                *)
(***************************************************************************)
\* The stored value of ak is the same on the layer the commit leaves current
\* as it was on the child before the commit.
CommitKeepsStorage(ak) ==
    known_storage(substate', Len(substate'), ak[1], ak[2])
        = known_storage(substate, Cur, ak[1], ak[2])

\* The account of address is marked reset in the current layer.
ResetHere(address) ==
    /\ address \in DOMAIN Top(substate).accounts
    /\ Top(substate).accounts[address].reset

\* C30: committing a child layer does not change what its frame observed: for
\* every (address, key), known_storage on the parent immediately after
\* commit() returns what known_storage returned on the child immediately
\* before it, also when the child called reset_storage on an address for
\* which the parent holds storage entries.
C30_CommitKeepsKnownStorage ==
    [][ev'.op = "commit" => \A ak \in AllKeys : CommitKeepsStorage(ak)]_vars

\* The commit keeps the stored values of every account that is not marked
\* reset in the child.
C30_KeptUnlessReset ==
    [][ev'.op = "commit" =>
         \A ak \in AllKeys : ~ResetHere(ak[1]) => CommitKeepsStorage(ak)]_vars
(***************************************************************************)
(* A commit that the metadata refuses.                                     *)
(***************************************************************************)
\* C31: when commit() returns the error of swallow_commit, the child layer
\* has been removed, the parent is current and holds exactly the accounts,
\* storages and deletes it held before the call: the stack is what a discard
\* would have left, not what it was before the call.
C31_FailedCommitDiscards ==
    [][ev'.op = "commit_err" =>
         /\ Len(substate') = Cur - 1
         /\ Top(substate') = substate[Cur - 1]
         /\ substate' = discard(substate)
         /\ substate' # substate
    ]_vars

\* The metadata has refused the commit of a child that held accounts,
\* storages and self-destructs.
C31_Witness ==
    /\ ev.op = "commit_err"
    /\ ev.hadStorages
    /\ ev.hadAccounts
    /\ ev.hadDeletes
(***************************************************************************)
(* A contract creation that cannot pay for the deposit of its code.        *)
(***************************************************************************)
\* The step is code_deposit on the exited machine of the transaction, whose
\* deposit costs more than the gas available.
OuterDepositShort ==
    /\ last'.op = "code_deposit"
    /\ Current.status.tag = "ExitedOk"
    /\ code_deposit_gas(Len(Current.state.out)) > available_gas(Current.state)

\* The machine that invoked the current one.
Invoker == machines[Len(machines) - 1]

\* The step is apply_sub of a creation that exited Ok, whose deposit costs
\* more than the gas the invoker has left once the sub's gas is charged.
NestedDepositShort ==
    /\ last'.op = "apply_sub"
    /\ Len(machines) > 1
    /\ ~panicked'
    /\ Invoker.status.tag = "InvokeCreate"
    /\ Current.status.tag = "ExitedOk"
    /\ code_deposit_gas(Len(Current.state.out)) >
         available_gas([Invoker.state EXCEPT
                          !.used_gas = @ + total_used_gas(Current.state)])

\* What code_deposit does when the deposit cannot be paid: without
\* force_code_deposit the creation fails, with it empty code is deposited
\* and nothing is charged.
OuterDepositOutcome ==
    OuterDepositShort =>
        IF Current.state.patch.force_code_deposit
        THEN /\ Top(machines').status = ExitedOk
             /\ Top(machines').state =
                  [Current.state EXCEPT !.account_state =
                     account_code_deposit(@, Current.state.context.address, <<>>)]
        ELSE /\ Top(machines').status = ExitedErr
             /\ Top(machines').state = Current.state

\* What the claim says of apply_create in the same case: under the same
\* patch, the same outcome.
NestedDepositOutcome ==
    NestedDepositShort =>
        IF Invoker.state.patch.force_code_deposit
        THEN /\ Top(machines').state.account_state =
                  account_code_deposit(Current.state.account_state,
                                       Current.state.context.address, <<>>)
             /\ Top(machines').state.used_gas =
                  Invoker.state.used_gas + total_used_gas(Current.state)
        ELSE /\ Top(machines').state.account_state = Invoker.state.account_state
             /\ Top(Top(machines').state.stack) = 0

\* C32: a creation whose code deposit costs more than the gas available is
\* treated alike as the outer transaction (code_deposit) and as a nested
\* CREATE (apply_create) under the same patch: without force_code_deposit
\* both end as a failed creation and deposit no code, with it both deposit
\* empty code without charging the deposit.
C32_DepositShortTreatedAlike ==
    [][OuterDepositOutcome /\ NestedDepositOutcome]_vars

\* code_deposit alone does what the claim says.
C32_OuterAsClaimed == [][OuterDepositOutcome]_vars

\* apply_create deposits empty code and keeps the creation, whatever the
\* patch.
C32_NestedAlwaysDeposits ==
    [][NestedDepositShort =>
         /\ Top(machines').state.account_state =
              account_code_deposit(Current.state.account_state,
                                   Current.state.context.address, <<>>)
         /\ Top(machines').state.used_gas =
              Invoker.state.used_gas + total_used_gas(Current.state)
         /\ Top(machines').state.stack = Invoker.state.stack
         /\ Top(machines').status = Running
    ]_vars
(***************************************************************************)
(* The guard at the start of apply_call and apply_create.                  *)
(***************************************************************************)
\* A sub-machine stands on the machine that invoked it.
SubInvoked == Len(machines) > 1 /\ Invoker.status.tag \in Invoking

\* C33: the guard at the start of apply_call and apply_create never fires:
\* whenever a sub-machine created by CALL, CALLCODE, DELEGATECALL or CREATE
\* stands on its invoker, and so whenever it is applied back, its used_gas is
\* at most the gas its invoker has available, also when its gas limit holds
\* a call stipend and it has used all of it.
C33_ApplyGuardNeverFires ==
    SubInvoked => available_gas(Invoker.state) >= Current.state.used_gas

\* A sub-machine whose gas limit holds the call stipend has used all of its
\* gas and has exited.
C33_Witness ==
    /\ SubInvoked
    /\ Invoker.status.tag = "InvokeCall"
    /\ Current.state.context.value > 0
    /\ Current.state.used_gas = Current.state.context.gas_limit
    /\ Current.state.used_gas = available_gas(Invoker.state)
    /\ Current.status.tag \in Exited
(***************************************************************************)
(* Serving a required block hash.                                          *)
(***************************************************************************)
\* The call is about to serve the Blockhash requirement fire returned.
ServingBlockhash == tx.phase = "commit" /\ tx.pending[1].tag = "Blockhash"

\* C34: given the entry assertion, every Blockhash(number) requirement that
\* the BLOCKHASH pre-check can raise is served from an index,
\* block.number - number, that lies inside most_recent_block_hashes, so
\* serving a requirement never aborts.
C34_BlockhashIndexInside ==
    /\ ServingBlockhash =>
         blockhash_index(tx.number, tx.pending[1].number) < tx.hashes
    /\ tx.phase # "panicked"

\* The index lies inside whenever most_recent_block_hashes is longer than
\* the assertion asks.
C34_InsideWhenLonger ==
    ServingBlockhash /\ tx.hashes > Min(tx.number, 256) =>
        blockhash_index(tx.number, tx.pending[1].number) < tx.hashes

\* The index is at most the length the assertion asks.
C34_AtMostOnePastEnd ==
    ServingBlockhash =>
        /\ blockhash_index(tx.number, tx.pending[1].number) >= 1
        /\ blockhash_index(tx.number, tx.pending[1].number) <= Min(tx.number, 256)
(***************************************************************************)
(* extra_check_opcode, and the call it lets through.                       *)
(***************************************************************************)
CallFamily == {"call", "callcode", "delegatecall"}

\* extra_check_opcode that also refuses a request equal to after_gas.
extra_check_opcode_at_least(instruction, state, stipend_gas, after_gas) ==
    IF instruction \in CallFamily
    THEN IF state.patch.err_on_call_with_more_gas /\ after_gas <= arg(state, 0)
         THEN "EmptyGas" ELSE "Ok"
    ELSE "Ok"

extra_check_opcode(instruction, state, stipend_gas, after_gas) ==
    IF instruction \in CallFamily
    THEN IF state.patch.err_on_call_with_more_gas /\ after_gas < arg(state, 0)
         THEN "EmptyGas" ELSE "Ok"
    ELSE "Ok"

\* What is left of the gas once instruction op is paid.
after_gas_of(op, state) ==
    state.context.gas_limit - (memory_gas(state) + state.used_gas + gas_cost(op, state))

\* The operands of op, a call asking for RequestedGas or for BigGas.
CheckedOperands(op) ==
    IF op \in CallFamily
    THEN {[operands EXCEPT ![Len(operands)] = gas] :
            operands \in Operands(op), gas \in {RequestedGas, BigGas}}
    ELSE Operands(op)

\* The gas the machine has used before the instruction: none, or what
\* leaves a call without value RequestedGas and one more or one less.
UsedBefore ==
    {0} \cup {GasLimit - callBase - RequestedGas + d : d \in {-1, 0, 1}}

\* The machine stands before a system instruction whose operands are on the
\* stack, under a patch with or without err_on_call_with_more_gas.
ExtraCheckInit ==
    /\ SubStart
    /\ panicked = FALSE
    /\ ninstr = 0
    /\ last = NoEv
    /\ \E patch \in Patches, flag \in BOOLEAN, used_gas \in UsedBefore,
          op \in InvokeOps \cup {"suicide", "log"} :
       \E operands \in CheckedOperands(op) :
         /\ machines = <<[Transaction(patch, 0) EXCEPT
                            !.state.patch =
                                [err_on_call_with_more_gas |-> flag] @@ patch,
                            !.state.used_gas = used_gas,
                            !.state.stack = operands]>>
         /\ tx = [phase |-> "check", instruction |-> op]

\* The step checks the instruction it can pay for.
ExtraCheckOpcode ==
    /\ tx.phase = "check"
    /\ ~empty_gas(tx.instruction, Current.state)
    /\ LET state == Current.state
           result == extra_check_opcode(tx.instruction, state,
                                        gas_stipend(tx.instruction, state),
                                        after_gas_of(tx.instruction, state))
       IN /\ last' = [op |-> "extra_check_opcode", result |-> result]
          /\ tx' = [tx EXCEPT !.phase = IF result = "Ok" THEN "checked" ELSE "failed"]
          /\ machines' = IF result = "Ok" THEN machines
                         ELSE <<[Current EXCEPT !.status = ExitedErr]>>
    /\ UNCHANGED <<panicked, ninstr>>
    /\ UNCHANGED subvars

\* The step runs the instruction that passed the check.
RunChecked ==
    /\ tx.phase = "checked"
    /\ machines' = <<step(Current, tx.instruction)>>
    /\ last' = [op |-> "run", instruction |-> tx.instruction]
    /\ tx' = [tx EXCEPT !.phase = "ran"]
    /\ UNCHANGED <<panicked, ninstr>>
    /\ UNCHANGED subvars

ExtraCheckNext ==
    \/ ExtraCheckOpcode
    \/ RunChecked

ExtraCheckSpec == ExtraCheckInit /\ [][ExtraCheckNext]_vars

\* C35: extra_check_opcode fails with EmptyGas exactly when the instruction
\* is CALL, CALLCODE or DELEGATECALL, the patch has err_on_call_with_more_gas
\* and the gas requested (the top of the stack) is greater than after_gas;
\* otherwise it returns Ok, and a call that asks for more than after_gas is
\* given at most after_gas besides its stipend.
C35_ExtraCheckOnlyOnCallWithMoreGas ==
    [][/\ last'.op = "extra_check_opcode" =>
            (last'.result = "EmptyGas" <=>
                /\ tx.instruction \in CallFamily
                /\ Current.state.patch.err_on_call_with_more_gas
                /\ arg(Current.state, 0) > after_gas_of(tx.instruction, Current.state))
       /\ last'.op = "extra_check_opcode" => last'.result \in {"Ok", "EmptyGas"}
       /\ (last'.op = "run" /\ tx.instruction \in CallFamily
             /\ Top(machines').status.tag = "InvokeCall") =>
            LET limit == Top(machines').status.context.gas_limit
                          - gas_stipend(tx.instruction, Current.state)
                after == after_gas_of(tx.instruction, Current.state)
            IN /\ limit <= after
               /\ limit <= arg(Current.state, 0)
               /\ limit = after \/ limit = arg(Current.state, 0)
                  \/ Current.state.patch.call_create_l64_after_gas
    ]_vars

\* Without the flag a call that asked for more than after_gas has passed
\* the check and has been invoked.
C35_Witness ==
    /\ last.op = "run"
    /\ last.instruction = "call"
    /\ ~Current.state.patch.err_on_call_with_more_gas
    /\ Current.status.tag = "InvokeCall"
    /\ Current.status.context.gas_limit > RequestedGas + callStipend
    /\ Current.status.context.gas_limit < BigGas

\* With the flag a call that asked for exactly after_gas has passed the
\* check.
C35_AtTheLimit ==
    /\ last.op = "extra_check_opcode"
    /\ last.result = "Ok"
    /\ tx.instruction \in CallFamily
    /\ Current.state.patch.err_on_call_with_more_gas
    /\ arg(Current.state, 0) = after_gas_of(tx.instruction, Current.state)

\* With the flag a call that asked for more than after_gas has failed.
C35_Refused ==
    /\ last.op = "extra_check_opcode"
    /\ last.result = "EmptyGas"
    /\ tx.phase = "failed"

(***************************************************************************)
(* CALLCODE and DELEGATECALL from a frame that was itself called with a    *)
(* value: the context of the sub-frame and the transfer of invoke_call.    *)
(***************************************************************************)
\* The frame that executes the instruction: the frame of a transaction, or a
\* frame a CALL of account caller invoked on account 1 with value value.
Frame(patch, depth, caller, value) ==
    [Transaction(patch, depth) EXCEPT !.state.context.caller = caller,
                                      !.state.context.value = value]

DelegateInit ==
    /\ SubStart
    /\ \E patch \in Patches, depth \in {0, callstack_limit},
          caller \in {2, 3}, value \in {0, 1} :
         machines = <<Frame(patch, depth, caller, value)>>
    /\ panicked = FALSE
    /\ ninstr = 0
    /\ last = NoEv
    /\ tx = NoTx

\* The program pushes the operands of a CALLCODE or of a DELEGATECALL.
PushDelegated ==
    /\ CanStep
    /\ last.op # "push"
    /\ ninstr < MaxInstr
    /\ \E op \in {"callcode", "delegatecall"} : \E operands \in Operands(op) :
         /\ machines' = SetTop(machines,
                               [Current EXCEPT !.state.stack = @ \o operands])
         /\ last' = [op |-> "push", for |-> op]
    /\ UNCHANGED <<panicked, ninstr>>
    /\ UNCHANGED subvars
    /\ UNCHANGED tx

DelegateNext ==
    \/ PushDelegated
    \/ CallCodeInstr
    \/ DelegateCallInstr
    \/ Derive

DelegateSpec == DelegateInit /\ [][DelegateNext]_vars

\* This step derives and invokes the sub-frame the instruction op asked for.
Started(op) ==
    /\ last.op = op
    /\ Current.status.tag = "InvokeCall"
    /\ Len(machines') = Len(machines) + 1

\* invoke_call left every balance of the sub-frame as the parent had it.
BalancesKept ==
    \A a \in 1..3 :
        balance(Top(machines').state.account_state, a) =
            balance(Current.state.account_state, a)

\* C36: a sub-frame started by CALLCODE or DELEGATECALL runs at the parent's
\* address; for CALLCODE its caller is the parent's address and the transfer
\* of invoke_call leaves every balance unchanged; for DELEGATECALL its caller
\* is the parent's caller, its apparent value is the parent's value, and
\* invoke_call moves no balance.
C36_SubFrameOfCallCodeAndDelegateCall ==
    [][/\ Started("callcode") =>
            /\ Top(machines').state.context.address = Current.state.context.address
            /\ Top(machines').state.context.caller = Current.state.context.address
            /\ BalancesKept
       /\ Started("delegatecall") =>
            /\ Top(machines').state.context.address = Current.state.context.address
            /\ Top(machines').state.context.caller = Current.state.context.caller
            /\ Top(machines').state.context.value = Current.state.context.value
            /\ BalancesKept
    ]_vars

\* What holds of CALLCODE: the address, the caller and the balances are as
\* stated, and the apparent value is the operand of the instruction.
C36_CallCodeAsStated ==
    [][Started("callcode") =>
            /\ Top(machines').state.context.address = Current.state.context.address
            /\ Top(machines').state.context.caller = Current.state.context.address
            /\ Top(machines').state.context.value \in Values
            /\ BalancesKept
    ]_vars

\* What holds of DELEGATECALL: the address, the caller and the balances are
\* as stated, and the apparent value of the sub-frame is zero whatever the
\* value of the parent.
C36_DelegateCallValueZero ==
    [][Started("delegatecall") =>
            /\ Top(machines').state.context.address = Current.state.context.address
            /\ Top(machines').state.context.caller = Current.state.context.caller
            /\ Top(machines').state.context.value = 0
            /\ BalancesKept
    ]_vars

\* A DELEGATECALL from a frame called with value 1 has started its sub-frame.
C36_DelegatedWithValue ==
    /\ Len(machines) = 2
    /\ machines[1].state.context.value = 1
    /\ machines[1].status.tag = "InvokeCall"
    /\ last.op = "derive"
    /\ machines[2].state.context.caller = machines[1].state.context.caller
    /\ machines[2].state.context.caller # machines[1].state.context.address

\* A CALLCODE with a value has started its sub-frame.
C36_CallCodeWithValue ==
    /\ Len(machines) = 2
    /\ last.op = "derive"
    /\ machines[2].state.context.value = 1
    /\ machines[2].state.context.caller = machines[1].state.context.address

(***************************************************************************)
(* Ord for U256.                                                           *)
(***************************************************************************)
\* The order of the unsigned integers.
NumericOrder(a, b) ==
    IF a < b THEN "Less" ELSE IF a > b THEN "Greater" ELSE "Equal"

\* C37: cmp is the numeric order of the unsigned integers: for all a and b
\* it returns without aborting, returns Equal exactly when a = b and Less
\* exactly when a is smaller than b.
C37_CmpIsNumericOrder ==
    last.op = "cmp" => last.result = Ok(NumericOrder(tx.a, tx.b))

\* What holds of cmp: it is the numeric order when the most significant
\* limbs differ; when they are equal it aborts where overflow is checked
\* and returns Equal otherwise, whatever the other limbs are.
C37_CmpOfFirstLimb ==
    last.op = "cmp" =>
        IF ToLimbs(tx.a)[0] # ToLimbs(tx.b)[0]
        THEN last.result = Ok(NumericOrder(tx.a, tx.b))
        ELSE last.result = IF tx.build = "debug" THEN Aborted ELSE Ok("Equal")

\* cmp was applied to two different words whose most significant limbs are
\* equal.
C37_ComparedBelowFirstLimb ==
    /\ last.op = "cmp"
    /\ tx.a < tx.b
    /\ ToLimbs(tx.a)[0] = ToLimbs(tx.b)[0]

(***************************************************************************)
(* Conversions between u64, usize and U256.                                *)
(***************************************************************************)
\* A u64 is two limbs wide; a usize is one or two limbs wide, as the target
\* has it.
U64Modulus == LimbModulus * LimbModulus
Targets == {"32", "64"}
UsizeModulus(target) == IF target = "32" THEN LimbModulus ELSE U64Modulus

\* big_digit::get_hi and big_digit::get_lo.
get_hi(val) == val \div LimbModulus
get_lo(val) == val % LimbModulus

\* From<u64>.
from_u64(val) ==
    [k \in 0..(NLimbs - 1) |->
        IF k = 6 THEN get_hi(val) ELSE IF k = 7 THEN get_lo(val) ELSE 0]

\* iter().position(|s| *s != 0): the index of the first limb that is not
\* zero, NLimbs standing for None.
position(arr) ==
    IF \A k \in 0..(NLimbs - 1) : arr[k] = 0 THEN NLimbs
    ELSE CHOOSE k \in 0..(NLimbs - 1) :
            /\ arr[k] # 0
            /\ \A j \in 0..(k - 1) : arr[j] = 0

\* Into<u64>.
into_u64(arr) ==
    LET p == position(arr)
    IN IF ~(p = NLimbs \/ p = 6) THEN Aborted
       ELSE Ok(arr[7] + arr[6] * LimbModulus)

\* From<usize>: (val as u64).into().
from_usize(val) == from_u64(val)

\* Into<usize>: the u64, cast to usize.
into_usize(arr, target) ==
    LET v64 == into_u64(arr)
    IN IF v64 = Aborted THEN Aborted ELSE Ok(v64.value % UsizeModulus(target))

ConvertInit ==
    /\ SubStart
    /\ machines = <<>>
    /\ panicked = FALSE
    /\ ninstr = 0
    /\ last = NoEv
    /\ \E v \in 0..(U64Modulus - 1), target \in Targets :
         tx = [phase |-> "value", v |-> v, target |-> target]

\* The value has been converted to the word word.
Converted(from, word) ==
    /\ tx.phase = "value"
    /\ tx' = [phase |-> "word", v |-> tx.v, target |-> tx.target, word |-> word]
    /\ last' = [op |-> from]
    /\ UNCHANGED <<machines, panicked, ninstr>>
    /\ UNCHANGED subvars

\* The word has been converted back, with result result.
ConvertedBack(into, result) ==
    /\ tx.phase = "word"
    /\ tx' = [tx EXCEPT !.phase = "back"]
    /\ last' = [op |-> into, from |-> last.op, result |-> result]
    /\ UNCHANGED <<machines, panicked, ninstr>>
    /\ UNCHANGED subvars

FromU64 == TRUE /\ Converted("from_u64", from_u64(tx.v))
FromUsize == tx.v < UsizeModulus(tx.target) /\ Converted("from_usize", from_usize(tx.v))
IntoU64 == TRUE /\ ConvertedBack("into_u64", into_u64(tx.word))
IntoUsize == TRUE /\ ConvertedBack("into_usize", into_usize(tx.word, tx.target))

ConvertNext ==
    \/ FromU64
    \/ FromUsize
    \/ IntoU64
    \/ IntoUsize

ConvertSpec == ConvertInit /\ [][ConvertNext]_vars

\* C38: for every u64 value v, zero and the values below one limb included,
\* converting v to U256 and back with Into<u64> returns v without aborting.
C38_U64RoundTrip ==
    last.op = "into_u64" /\ last.from = "from_u64" => last.result = Ok(tx.v)

\* What holds of the round trip: it returns v when v is zero or fills the
\* upper limb, and aborts for every other v.
C38_RoundTripFromUpperLimb ==
    last.op = "into_u64" /\ last.from = "from_u64" =>
        last.result = IF tx.v = 0 \/ get_hi(tx.v) # 0 THEN Ok(tx.v) ELSE Aborted

\* What holds of the word From<u64> builds: its value is v.
C38_FromU64KeepsValue ==
    tx.phase = "word" /\ last.op = "from_u64" => ToValue(tx.word) = tx.v

\* A value that fills the upper limb has made the round trip.
C38_RoundTripped ==
    /\ last.op = "into_u64"
    /\ last.from = "from_u64"
    /\ get_hi(tx.v) # 0
    /\ get_lo(tx.v) # 0
    /\ last.result = Ok(tx.v)

\* A value below one limb has been converted back.
C38_BackFromLowerLimb ==
    /\ last.op = "into_u64"
    /\ last.from = "from_u64"
    /\ tx.v > 0
    /\ get_hi(tx.v) = 0
====
